---- MODULE Spec2Model ----
(***************************************************************************)
(* Browser-session authentication bridge of media-ingest (mingest).        *)
(*                                                                         *)
(* The module models ingest/cli.go runWithAuthFallback (the fallback over  *)
(* the cached cookie file, the browser sources and the CDP path) and       *)
(* ingest/cdp_chrome.go (tryDownloadWithChromeCDP, runAuth,                *)
(* exportCookiesFromChromeCDP, chromeAuthViaCDP, startChrome, the DevTools *)
(* polls, cdpGetAllCookies and cdpClient.Call).                            *)
(***************************************************************************)
EXTENDS Integers, Sequences, FiniteSets, TLC

(***************************************************************************)
(* Bounds of the model.                                                    *)
(***************************************************************************)
MaxSources == 2
MaxPolls == 2
MaxFrames == 2
MaxId == 3

(***************************************************************************)
(* Exit codes (ingest/cli.go).                                             *)
(***************************************************************************)
exitOK == 0
exitAuthRequired == 20
exitCookieProblem == 21
exitRuntimeMissing == 30
exitFFmpegMissing == 31
exitDownloadFailed == 40

\* The codes runYtDlp can return: success or one of classifyFailure's codes.
YtDlpCodes ==
  {exitOK, exitAuthRequired, exitCookieProblem, exitRuntimeMissing,
   exitFFmpegMissing, exitDownloadFailed}

shouldTryNextAuth(code) ==
  code = exitAuthRequired \/ code = exitCookieProblem

(***************************************************************************)
(* Strings are sequences of one-character strings, so that the string      *)
(* functions the code uses on cookie domains can be computed.              *)
(***************************************************************************)
UpperLetters ==
  <<"A", "B", "C", "D", "E", "F", "G", "H", "I", "J", "K", "L", "M", "N",
    "O", "P", "Q", "R", "S", "T", "U", "V", "W", "X", "Y", "Z">>

LowerLetters ==
  <<"a", "b", "c", "d", "e", "f", "g", "h", "i", "j", "k", "l", "m", "n",
    "o", "p", "q", "r", "s", "t", "u", "v", "w", "x", "y", "z">>

LowerChar(c) ==
  IF \E k \in DOMAIN UpperLetters : UpperLetters[k] = c
    THEN LowerLetters[CHOOSE k \in DOMAIN UpperLetters : UpperLetters[k] = c]
    ELSE c

ToLower(s) == [k \in DOMAIN s |-> LowerChar(s[k])]

RECURSIVE TrimLeft(_)
TrimLeft(s) ==
  IF s # <<>> /\ Head(s) = " " THEN TrimLeft(Tail(s)) ELSE s

RECURSIVE TrimRight(_)
TrimRight(s) ==
  IF s # <<>> /\ s[Len(s)] = " "
    THEN TrimRight(SubSeq(s, 1, Len(s) - 1))
    ELSE s

TrimSpace(s) == TrimRight(TrimLeft(s))

HasPrefix(s, p) ==
  Len(s) >= Len(p) /\ SubSeq(s, 1, Len(p)) = p

HasSuffix(s, p) ==
  Len(s) >= Len(p) /\ SubSeq(s, Len(s) - Len(p) + 1, Len(s)) = p

TrimPrefix(s, p) ==
  IF HasPrefix(s, p) THEN SubSeq(s, Len(p) + 1, Len(s)) ELSE s

(***************************************************************************)
(* Platforms: the built-in bilibili platform and the zero videoPlatform{}  *)
(* that runGet uses for a URL matching no built-in platform.               *)
(***************************************************************************)
DomBilibili ==
  <<"b", "i", "l", "i", "b", "i", "l", "i", ".", "c", "o", "m">>
DomDotBilibili == <<".">> \o DomBilibili
DomWwwBilibili == <<"w", "w", "w", ".">> \o DomBilibili
DomAdnetwork == <<"a", "d", ".", "e", "x">>

bilibiliPlatformRec ==
  [ID |-> "bilibili",
   CookieDomainSuffixes |-> <<DomBilibili>>,
   AuthCookieNames |-> <<"SESSDATA">>]

unknownPlatform ==
  [ID |-> "", CookieDomainSuffixes |-> <<>>, AuthCookieNames |-> <<>>]

Platforms == {bilibiliPlatformRec, unknownPlatform}

suffixMatchesMut(d, ss) == HasSuffix(d, ss)

\* d == ss || strings.HasSuffix(d, "."+ss).
suffixMatches(d, ss) == d = ss \/ HasSuffix(d, <<".">> \o ss)

AllowsCookieDomain(p, domain) ==
  IF Len(p.CookieDomainSuffixes) = 0
    THEN TRUE
    ELSE LET d == TrimPrefix(ToLower(TrimSpace(domain)), <<".">>)
         IN  IF d = <<>>
               THEN FALSE
               ELSE \E k \in DOMAIN p.CookieDomainSuffixes :
                      LET ss == ToLower(TrimSpace(p.CookieDomainSuffixes[k]))
                      IN  /\ ss # <<>>
                          /\ suffixMatches(d, ss)

(***************************************************************************)
(* Cookies (chromeCookie) and the cookie lists a browser may hand out.     *)
(***************************************************************************)
Cookie(name, value, domain) ==
  [name |-> name, value |-> value, domain |-> domain]

CkAuth == Cookie("SESSDATA", "tok", DomDotBilibili)
CkAuthEmpty == Cookie("SESSDATA", "", DomDotBilibili)
CkAuthForeign == Cookie("SESSDATA", "tok", DomAdnetwork)
CkOther == Cookie("buvid3", "x", DomWwwBilibili)

CookieLists ==
  {<<CkAuth>>, <<CkAuthEmpty, CkOther>>, <<CkAuthForeign, CkAuth>>,
   <<CkAuthForeign>>}

nameAndValueMatchMut(c, want) == c.name = want

\* c.Name == want && c.Value != "".
nameAndValueMatch(c, want) == c.name = want /\ c.value # ""

looksLikeLoggedIn(cookies, p) ==
  IF Len(p.AuthCookieNames) = 0
    THEN FALSE
    ELSE \E k \in DOMAIN cookies :
           /\ AllowsCookieDomain(p, cookies[k].domain)
           /\ \E w \in DOMAIN p.AuthCookieNames :
                nameAndValueMatch(cookies[k], p.AuthCookieNames[w])

\* The records writeNetscapeCookieFile emits: the cookies that pass the
\* domain filter and whose domain is not blank, in list order.
writtenCookies(cookies, p) ==
  SelectSeq(cookies,
            LAMBDA c : AllowsCookieDomain(p, c.domain)
                       /\ TrimSpace(c.domain) # <<>>)


(***************************************************************************)
(* Files.  A file is a record: whether it exists, which writer produced    *)
(* its present content (origin, and the number of the attempt that wrote   *)
(* it) and the cookies it holds.                                           *)
(***************************************************************************)
NoFile == [exists |-> FALSE, origin |-> "none", by |-> 0, cookies |-> <<>>]

\* A temp file that was created and has been removed again.
RemovedFile ==
  [exists |-> FALSE, origin |-> "removed", by |-> 0, cookies |-> <<>>]

FileOf(origin, by, cookies) ==
  [exists |-> TRUE, origin |-> origin, by |-> by, cookies |-> cookies]

\* Cache contents that an earlier run may have left behind.
PrevCacheLists == {<<CkAuth>>, <<CkOther>>}

\* Jars yt-dlp may dump into the cache file during the cached-file attempt.
CacheDumpLists == {<<CkAuthEmpty, CkOther>>, <<CkAuthForeign, CkAuth>>}

\* filterCookieFileForPlatform rewrites a cookie file keeping the cookies of
\* the platform's domains; on an error the file is left as it was.
filterCookieFileForPlatform(file, p, ok) ==
  IF ok THEN [file EXCEPT !.cookies = writtenCookies(file.cookies, p)]
        ELSE file

\* cookieFileLooksLikeAuthenticated: the heuristic applied to the cookies
\* read back from a cookie file.
cookieFileLooksLikeAuthenticated(file, p) ==
  looksLikeLoggedIn(file.cookies, p)

\* yt-dlp's --cookies FILE is input and output: after a run the file holds
\* the jar yt-dlp dumped, or is left as it was when yt-dlp stopped early.
YtDlpJarOutcomes(file, n, lists) ==
  {file} \cup {FileOf("ytdlp", n, l) : l \in lists}

(***************************************************************************)
(* Source lists handed to runWithAuthFallback: any list of browser         *)
(* sources, the empty list included.  A browser other than chrome stands   *)
(* for firefox, chromium, edge or the value of MINGEST_BROWSER.            *)
(***************************************************************************)
Browsers == {"chrome", "firefox"}

RECURSIVE SeqsUpTo(_, _)
SeqsUpTo(S, n) ==
  IF n = 0
    THEN {<<>>}
    ELSE LET shorter == SeqsUpTo(S, n - 1)
         IN  shorter \cup
             {Append(q, x) : q \in {r \in shorter : Len(r) = n - 1}, x \in S}

SourceLists == SeqsUpTo(Browsers, MaxSources)

(***************************************************************************)
(* State.                                                                  *)
(***************************************************************************)
VARIABLES
  mode,        \* "get" (runGet -> runWithAuthFallback) or "auth" (runAuth)
  platform,    \* the videoPlatform of the run
  sources,     \* the ordered source list
  cookieFile,  \* TRUE iff the cache path handed to the run is not blank
  pc,          \* position of the control flow
  cache,       \* the persistent per-platform cookie cache file
  jarFile,     \* the temp cookie jar of the current source attempt
  cdpFile,     \* the temp file exportCookiesFromChromeCDP creates
  tmpCookieFile, \* TRUE iff the current source attempt has a temp jar
  i,           \* index of the current source (1-based)
  code,        \* code of the current source attempt
  lastCode,
  cdpCode,     \* code returned by tryDownloadWithChromeCDP
  result,      \* code returned by the run, Running while it runs
  checkRes,    \* outcome of the authenticated check of the current attempt
  attempts,    \* downloader / CDP attempts started so far, in order
  attemptCode, \* code of the latest attempt, Running while it runs
  proc,        \* the browser process of the current attempt
  stopCalls,   \* how often the stop handle of that process was invoked
  ws,          \* the WebSocket connection: "none", "open", "closed"
  polls,       \* polls made by the current DevTools poll loop
  steps,       \* milestones reached by the current CDP attempt, in order
  nextID,      \* cdpClient.nextID
  callId,      \* id of the request the current Call awaits
  callMethod,  \* method of the current Call
  sent,        \* request frames written on the session, in order
  framesRead,  \* frames the current Call has skipped
  taken,       \* per returned Call: its id and the frame it took as reply
  cookies,     \* cookie list obtained over CDP
  cdpError,    \* why the latest CDP attempt failed before extraction
  onlyRetryable \* TRUE while every finished attempt ended retryable

inputVars == <<mode, platform, sources, cookieFile>>
fileVars == <<cache, jarFile, cdpFile>>
loopVars == <<tmpCookieFile, i, code, lastCode, checkRes>>
retVars == <<cdpCode, result, attempts, attemptCode, onlyRetryable>>
procVars == <<proc, stopCalls, ws>>
histVars == <<cdpError>>
sessVars ==
  <<polls, steps, nextID, callId, callMethod, sent, framesRead, taken,
    cookies>>

mainVars ==
  <<inputVars, pc, fileVars, loopVars, retVars, procVars, sessVars,
    histVars>>

\* State of the calls made on functions taken alone: the WebSocket
\* functions (wsDial, writeFrame, readFrame, ReadJSONRaw) on a connection,
\* and the pure functions of the cookie codec and of the source list.
VARIABLES
  wsPhase,     \* position of the call on the connection
  wsArg,       \* argument of the call: payload to write, or the response
  wsIn,        \* bytes the server sent that are not read yet
  wsLog,       \* frames read and frames written on the connection, in order
  wsRet,       \* what the call returned
  fnName,      \* the function, or the scenario, taken alone
  fnArg,       \* its arguments
  fnOut        \* its result, and its locals while it runs

wsVars == <<wsPhase, wsArg, wsIn, wsLog, wsRet>>
fnVars == <<fnName, fnArg, fnOut>>

vars == <<mainVars, wsVars, fnVars>>

\* No call on a connection taken alone.
WsIdle ==
  /\ wsPhase = "none"
  /\ wsArg = <<>>
  /\ wsIn = <<>>
  /\ wsLog = <<>>
  /\ wsRet = [kind |-> "none", payload |-> <<>>]

\* No call of a pure function taken alone.
FnIdle ==
  /\ fnName = "none"
  /\ fnArg = <<>>
  /\ fnOut = "none"

Running == -1

Attempt(kind, idx) == [kind |-> kind, idx |-> idx]

(***************************************************************************)
(* Decisions of runWithAuthFallback.                                       *)
(***************************************************************************)
\* Variant: the copy is skipped only when the check failed with an error.
promoteAllowedMut(res) == res # "err"

\* The temp jar is copied over the cache only when the authenticated check
\* returned (true, nil).
promoteAllowed(res) == res = "true"

\* Variant: the CDP path is tried after a failure that is not retryable.
cdpFallbackWantedMut(src, c) == src = "chrome" /\ ~shouldTryNextAuth(c)

\* The CDP path is tried after a retryable failure of the source chrome.
cdpFallbackWanted(src, c) == src = "chrome" /\ shouldTryNextAuth(c)

\* Variant: a cookie problem of the CDP path does not replace the code.
codeAfterCdpMut(c, cdp) ==
  IF cdp = exitAuthRequired THEN exitAuthRequired ELSE c

\* The code of the chrome attempt after the CDP path returned cdp.
codeAfterCdp(c, cdp) ==
  IF cdp = exitAuthRequired
    THEN exitAuthRequired
    ELSE IF cdp = exitCookieProblem THEN exitCookieProblem ELSE c

\* Variant: the loop takes the same source again.
nextSourceMut(idx) == idx

\* for i, src := range sources: the source after sources[idx].
nextSource(idx) == idx + 1

\* The loop goes on to the next source.
continueLoop(idx, n, c) == idx < n /\ shouldTryNextAuth(c)

\* Variant: the last code is returned as it is.
finalCodeMut(last) == last

\* The code returned after the loop.
finalCode(last) == IF shouldTryNextAuth(last) THEN exitAuthRequired ELSE last

\* Variant: the cached file is never tried.
useCachedFileMut(cf) == FALSE

\* The cached-file attempt is made iff the cache path is not blank.
useCachedFile(cf) == cf

\* Variant: runGet asks for a cache path for every platform.
cachePathWantedMut(p) == TRUE

\* runGet asks cookiesCacheFilePath for a path only when the platform has an
\* ID; the path stays blank otherwise, and when the call fails.
cachePathWanted(p) == p.ID # ""

\* The state of the browser process and of the CDP session before an
\* attempt starts (the locals of the attempt).
CdpReset ==
  /\ proc' = "none"
  /\ stopCalls' = 0
  /\ ws' = "none"
  /\ polls' = 0
  /\ steps' = <<>>
  /\ nextID' = 0
  /\ callId' = 0
  /\ callMethod' = "none"
  /\ sent' = <<>>
  /\ framesRead' = 0
  /\ taken' = <<>>
  /\ cookies' = <<>>
  /\ cdpFile' = NoFile

(***************************************************************************)
(* Init: the state when runGet calls runWithAuthFallback, or when the      *)
(* auth command calls runAuth.                                             *)
(***************************************************************************)
Init ==
  /\ mode \in {"get", "auth"}
  /\ platform \in (IF mode = "auth" THEN {bilibiliPlatformRec} ELSE Platforms)
  /\ sources \in (IF mode = "get" THEN SourceLists ELSE {<<>>})
  /\ cookieFile \in (IF mode = "get" /\ cachePathWanted(platform)
                       THEN BOOLEAN
                       ELSE {FALSE})
  /\ cache \in (IF cookieFile \/ mode = "auth"
                  THEN {NoFile} \cup {FileOf("prev", 0, l) : l \in PrevCacheLists}
                  ELSE {NoFile})
  /\ pc = (IF mode = "get" THEN "start" ELSE "findChrome")
  /\ jarFile = NoFile
  /\ cdpFile = NoFile
  /\ tmpCookieFile = FALSE
  /\ i = 0
  /\ code = Running
  /\ lastCode = Running
  /\ cdpCode = Running
  /\ result = Running
  /\ checkRes = "none"
  /\ attempts = <<>>
  /\ attemptCode = Running
  /\ proc = "none"
  /\ stopCalls = 0
  /\ ws = "none"
  /\ polls = 0
  /\ steps = <<>>
  /\ nextID = 0
  /\ callId = 0
  /\ callMethod = "none"
  /\ sent = <<>>
  /\ framesRead = 0
  /\ taken = <<>>
  /\ cookies = <<>>
  /\ cdpError = "none"
  /\ onlyRetryable = TRUE
  /\ WsIdle
  /\ FnIdle

(***************************************************************************)
(* runWithAuthFallback.                                                    *)
(***************************************************************************)
\* 0) Fast path: the cached cookie file, filtered after yt-dlp touched it.
CacheAttempt ==
  /\ pc = "start"
  /\ useCachedFile(cookieFile)
  /\ \E c \in YtDlpCodes, f \in YtDlpJarOutcomes(cache, 1, CacheDumpLists),
        ok \in BOOLEAN :
       /\ cache' = (IF f.exists
                      THEN filterCookieFileForPlatform(f, platform, ok)
                      ELSE f)
       /\ attempts' = Append(attempts, Attempt("cache", 0))
       /\ attemptCode' = c
       /\ onlyRetryable' = (onlyRetryable /\ shouldTryNextAuth(c))
       /\ IF c = exitOK \/ ~shouldTryNextAuth(c)
            THEN result' = c /\ pc' = "done"
            ELSE result' = result /\ pc' = "checkSources"
  /\ UNCHANGED histVars
  /\ UNCHANGED <<wsVars, fnVars>>
  /\ UNCHANGED <<inputVars, jarFile, cdpFile, loopVars, cdpCode, procVars,
                 sessVars>>

SkipCache ==
  /\ pc = "start"
  /\ ~useCachedFile(cookieFile)
  /\ pc' = "checkSources"
  /\ UNCHANGED histVars
  /\ UNCHANGED <<wsVars, fnVars>>
  /\ UNCHANGED <<inputVars, fileVars, loopVars, retVars, procVars, sessVars>>

NoSources ==
  /\ pc = "checkSources"
  /\ Len(sources) = 0
  /\ result' = exitAuthRequired
  /\ pc' = "done"
  /\ UNCHANGED histVars
  /\ UNCHANGED <<wsVars, fnVars>>
  /\ UNCHANGED <<inputVars, fileVars, loopVars, cdpCode, attempts,
                 attemptCode, onlyRetryable, procVars, sessVars>>

BeginSources ==
  /\ pc = "checkSources"
  /\ Len(sources) # 0
  /\ lastCode' = exitDownloadFailed
  /\ i' = 1
  /\ pc' = "srcBegin"
  /\ UNCHANGED histVars
  /\ UNCHANGED <<wsVars, fnVars>>
  /\ UNCHANGED <<inputVars, fileVars, tmpCookieFile, code, checkRes, retVars,
                 procVars, sessVars>>

\* Browser-based attempts use a temp cookie jar file when there is a cache
\* path and createTempCookieJarFile succeeds.
SrcBegin ==
  /\ pc = "srcBegin"
  /\ checkRes' = "none"
  /\ IF cookieFile
       THEN \E ok \in BOOLEAN :
              /\ tmpCookieFile' = ok
              /\ jarFile' = (IF ok THEN FileOf("temp", 0, <<>>) ELSE NoFile)
       ELSE /\ tmpCookieFile' = FALSE
            /\ jarFile' = NoFile
  /\ pc' = "srcRun"
  /\ UNCHANGED histVars
  /\ UNCHANGED <<wsVars, fnVars>>
  /\ UNCHANGED <<inputVars, cache, cdpFile, i, code, lastCode, retVars,
                 procVars, sessVars>>

\* runYtDlp for the source; with a temp jar yt-dlp dumps its jar into it.
SrcRunYtDlp ==
  /\ pc = "srcRun"
  /\ \E c \in YtDlpCodes,
        f \in (IF tmpCookieFile
                 THEN YtDlpJarOutcomes(jarFile, Len(attempts) + 1, CookieLists)
                 ELSE {jarFile}) :
       /\ code' = c
       /\ attemptCode' = c
       /\ onlyRetryable' = (onlyRetryable /\ shouldTryNextAuth(c))
       /\ jarFile' = f
  /\ attempts' = Append(attempts, Attempt("source", i))
  /\ pc' = "srcFilter"
  /\ cdpError' = "none"
  /\ UNCHANGED <<wsVars, fnVars>>
  /\ UNCHANGED <<inputVars, cache, cdpFile, tmpCookieFile, i, lastCode,
                 checkRes, cdpCode, result, procVars, sessVars>>

SrcFilterTmp ==
  /\ pc = "srcFilter"
  /\ IF tmpCookieFile /\ jarFile.exists /\ cookieFile
       THEN \E ok \in BOOLEAN :
              /\ jarFile' = filterCookieFileForPlatform(jarFile, platform, ok)
              /\ pc' = (IF ok THEN "srcCheck" ELSE "srcCleanup")
       ELSE /\ jarFile' = jarFile
            /\ pc' = "srcCleanup"
  /\ UNCHANGED histVars
  /\ UNCHANGED <<wsVars, fnVars>>
  /\ UNCHANGED <<inputVars, cache, cdpFile, loopVars, retVars, procVars,
                 sessVars>>

SrcCheck ==
  /\ pc = "srcCheck"
  /\ \E err \in BOOLEAN :
       checkRes' = (IF err
                      THEN "err"
                      ELSE IF cookieFileLooksLikeAuthenticated(jarFile, platform)
                             THEN "true"
                             ELSE "false")
  /\ pc' = (IF promoteAllowed(checkRes') THEN "srcCopy" ELSE "srcCleanup")
  /\ UNCHANGED histVars
  /\ UNCHANGED <<wsVars, fnVars>>
  /\ UNCHANGED <<inputVars, fileVars, tmpCookieFile, i, code, lastCode,
                 retVars, procVars, sessVars>>

\* copyFileAtomic(tmpCookieFile, cookieFile); a failed copy leaves the cache.
SrcCopy ==
  /\ pc = "srcCopy"
  /\ \E ok \in BOOLEAN :
       cache' = (IF ok THEN FileOf("jar", Len(attempts), jarFile.cookies)
                       ELSE cache)
  /\ pc' = "srcCleanup"
  /\ UNCHANGED histVars
  /\ UNCHANGED <<wsVars, fnVars>>
  /\ UNCHANGED <<inputVars, jarFile, cdpFile, loopVars, retVars, procVars,
                 sessVars>>

\* tmpCleanup(), the filtering of the cache, and the dispatch on the code.
SrcCleanup ==
  /\ pc = "srcCleanup"
  /\ jarFile' = (IF tmpCookieFile THEN RemovedFile ELSE jarFile)
  /\ IF cookieFile /\ cache.exists
       THEN \E ok \in BOOLEAN :
              cache' = filterCookieFileForPlatform(cache, platform, ok)
       ELSE cache' = cache
  /\ IF code = exitOK
       THEN /\ result' = code
            /\ pc' = "done"
            /\ UNCHANGED <<attempts, attemptCode, checkRes>>
       ELSE IF cdpFallbackWanted(sources[i], code)
              THEN /\ pc' = "findChrome"
                   /\ attempts' = Append(attempts, Attempt("cdp", i))
                   /\ attemptCode' = Running
                   /\ checkRes' = "none"
                   /\ result' = result
              ELSE /\ pc' = "srcNext"
                   /\ UNCHANGED <<attempts, attemptCode, checkRes, result>>
  /\ UNCHANGED histVars
  /\ UNCHANGED <<wsVars, fnVars>>
  /\ UNCHANGED <<inputVars, cdpFile, tmpCookieFile, i, code, lastCode,
                 cdpCode, onlyRetryable, procVars, sessVars>>

\* The orchestrator's handling of the code tryDownloadWithChromeCDP
\* returned; the locals of the finished call are gone.
CdpReturn ==
  /\ pc = "cdpRet"
  /\ IF cdpCode = exitOK
       THEN /\ IF cookieFile /\ cache.exists
                 THEN \E ok \in BOOLEAN :
                        cache' = filterCookieFileForPlatform(cache, platform, ok)
                 ELSE cache' = cache
            /\ result' = exitOK
            /\ pc' = "done"
            /\ code' = code
       ELSE /\ code' = codeAfterCdp(code, cdpCode)
            /\ pc' = "srcNext"
            /\ UNCHANGED <<cache, result>>
  /\ CdpReset
  /\ cdpCode' = Running
  /\ UNCHANGED histVars
  /\ UNCHANGED <<wsVars, fnVars>>
  /\ UNCHANGED <<inputVars, jarFile, tmpCookieFile, i, lastCode, checkRes,
                 attempts, attemptCode, onlyRetryable>>

SrcNext ==
  /\ pc = "srcNext"
  /\ lastCode' = code
  /\ IF continueLoop(i, Len(sources), code)
       THEN /\ i' = nextSource(i)
            /\ pc' = "srcBegin"
            /\ result' = result
       ELSE /\ i' = i
            /\ result' = finalCode(lastCode')
            /\ pc' = "done"
  /\ UNCHANGED histVars
  /\ UNCHANGED <<wsVars, fnVars>>
  /\ UNCHANGED <<inputVars, fileVars, tmpCookieFile, code, checkRes, cdpCode,
                 attempts, attemptCode, onlyRetryable, procVars, sessVars>>

(***************************************************************************)
(* The CDP path: tryDownloadWithChromeCDP with exportCookiesFromChromeCDP   *)
(* (mode "get") and runAuth with chromeAuthViaCDP (mode "auth").  Both      *)
(* start the browser with startChrome and read the cookies with             *)
(* cdpGetAllCookies.                                                        *)
(***************************************************************************)
\* The function returns codeVal: to runWithAuthFallback from
\* tryDownloadWithChromeCDP, to the command line from runAuth.
Return(codeVal) ==
  IF mode = "get"
    THEN /\ cdpCode' = codeVal
         /\ attemptCode' = codeVal
         /\ onlyRetryable' = (onlyRetryable /\ shouldTryNextAuth(codeVal))
         /\ pc' = "cdpRet"
         /\ UNCHANGED <<result, attempts>>
    ELSE /\ result' = codeVal
         /\ pc' = "done"
         /\ UNCHANGED <<cdpCode, attempts, attemptCode, onlyRetryable>>

Goto(p) ==
  /\ pc' = p
  /\ UNCHANGED retVars

\* Variant: an error of the extraction is reported as a missing login.
extractErrorCodeMut(m) == exitAuthRequired

\* Code for an error of the cookie extraction: tryDownloadWithChromeCDP
\* returns exitCookieProblem, runAuth returns exitAuthRequired.
extractErrorCode(m) ==
  IF m = "get" THEN exitCookieProblem ELSE exitAuthRequired

\* Variant: startChrome does not call stop() when waitForDevTools fails.
stopInvokedOnErrorMut(at) ==
  at \in {"authWait", "findTarget", "wsDial", "callSend", "callRead",
          "mkTemp", "writeTemp", "authCheck"}

\* Positions at which an error return runs stop(): startChrome calls it
\* itself when waitForDevTools fails, and its callers defer it once
\* startChrome has returned the handle.
stopInvokedOnError(at) ==
  at \in {"scWait", "authWait", "findTarget", "wsDial", "callSend",
          "callRead", "mkTemp", "writeTemp", "authCheck"}

\* An error return of exportCookiesFromChromeCDP / chromeAuthViaCDP from
\* position pc: ws.Close() and stop() run as the code's defers say.
ExtractError ==
  /\ proc' = (IF stopInvokedOnError(pc) THEN "stopped" ELSE proc)
  /\ stopCalls' = (IF stopInvokedOnError(pc) THEN stopCalls + 1 ELSE stopCalls)
  /\ ws' = (IF ws = "open" THEN "closed" ELSE ws)
  /\ Return(extractErrorCode(mode))

\* A normal return of exportCookiesFromChromeCDP / chromeAuthViaCDP:
\* the deferred stop() runs.
DeferredStop ==
  /\ proc' = "stopped"
  /\ stopCalls' = stopCalls + 1
  /\ ws' = ws

FindChrome ==
  /\ pc = "findChrome"
  /\ \E ok \in BOOLEAN :
       IF ok THEN Goto("profileDir") /\ UNCHANGED histVars
             ELSE Return(exitCookieProblem) /\ cdpError' = "BrowserNotFound"
  /\ UNCHANGED <<wsVars, fnVars>>
  /\ UNCHANGED <<inputVars, fileVars, loopVars, procVars, sessVars>>

\* chromeProfileDir(), and in runAuth also os.MkdirAll(profileDir).
ProfileDir ==
  /\ pc = "profileDir"
  /\ \E ok \in BOOLEAN :
       IF ok THEN Goto("scPort") /\ UNCHANGED histVars
             ELSE /\ Return(exitCookieProblem)
                  /\ cdpError' = "ProfileDirectoryError"
  /\ UNCHANGED <<wsVars, fnVars>>
  /\ UNCHANGED <<inputVars, fileVars, loopVars, procVars, sessVars>>

\* startChrome: pickFreePort.
ScPickFreePort ==
  /\ pc = "scPort"
  /\ \E ok \in BOOLEAN :
       IF ok THEN Goto("scMkdir") /\ UNCHANGED procVars
             ELSE ExtractError
  /\ UNCHANGED histVars
  /\ UNCHANGED <<wsVars, fnVars>>
  /\ UNCHANGED <<inputVars, fileVars, loopVars, sessVars>>

\* startChrome: os.MkdirAll(profileDir).
ScMkdirAll ==
  /\ pc = "scMkdir"
  /\ \E ok \in BOOLEAN :
       IF ok THEN Goto("scStart") /\ UNCHANGED <<procVars, histVars>>
             ELSE ExtractError /\ cdpError' = "ProfileDirectoryError"
  /\ UNCHANGED <<wsVars, fnVars>>
  /\ UNCHANGED <<inputVars, fileVars, loopVars, sessVars>>

\* startChrome: os.StartProcess.
ScStartProcess ==
  /\ pc = "scStart"
  /\ \E ok \in BOOLEAN :
       IF ok THEN /\ Goto("scWait")
                  /\ proc' = "running"
                  /\ UNCHANGED <<stopCalls, ws>>
             ELSE ExtractError
  /\ UNCHANGED histVars
  /\ UNCHANGED <<wsVars, fnVars>>
  /\ UNCHANGED <<inputVars, fileVars, loopVars, sessVars>>

\* Where the flow goes when waitForDevTools returned nil.
afterDevTools(at, m) ==
  IF at = "scWait"
    THEN (IF m = "get" THEN "findTarget" ELSE "authWait")
    ELSE "findTarget"

\* One poll of waitForDevTools (in startChrome, and again in
\* chromeAuthViaCDP, which then waits for the operator's return key):
\* GET /json/version before the deadline.
PollDevTools ==
  /\ pc = "scWait" \/ pc = "authWait"
  /\ polls < MaxPolls
  /\ \E status \in {"error", "200", "503"} :
       IF status = "200"
         THEN /\ steps' = Append(steps, "ready")
              /\ polls' = 0
              /\ Goto(afterDevTools(pc, mode))
         ELSE /\ steps' = steps
              /\ polls' = polls + 1
              /\ Goto(pc)
  /\ UNCHANGED histVars
  /\ UNCHANGED <<wsVars, fnVars>>
  /\ UNCHANGED <<inputVars, fileVars, loopVars, procVars, nextID, callId,
                 callMethod, sent, framesRead, taken, cookies>>

\* The deadline of waitForDevTools has passed.
DevToolsTimeout ==
  /\ pc = "scWait" \/ pc = "authWait"
  /\ polls >= 1
  /\ ExtractError
  /\ polls' = 0
  /\ UNCHANGED histVars
  /\ UNCHANGED <<wsVars, fnVars>>
  /\ UNCHANGED <<inputVars, fileVars, loopVars, steps, nextID, callId,
                 callMethod, sent, framesRead, taken, cookies>>

\* One poll of waitForFirstPageWSURL: GET /json/list before the deadline.
PollPageTarget ==
  /\ pc = "findTarget"
  /\ polls < MaxPolls
  /\ \E outcome \in {"error", "non200", "badJSON", "noPage", "page"} :
       IF outcome = "page"
         THEN /\ steps' = Append(steps, "target")
              /\ polls' = 0
              /\ Goto("wsDial")
         ELSE /\ steps' = steps
              /\ polls' = polls + 1
              /\ Goto(pc)
  /\ UNCHANGED histVars
  /\ UNCHANGED <<wsVars, fnVars>>
  /\ UNCHANGED <<inputVars, fileVars, loopVars, procVars, nextID, callId,
                 callMethod, sent, framesRead, taken, cookies>>

PageTargetTimeout ==
  /\ pc = "findTarget"
  /\ polls >= 1
  /\ ExtractError
  /\ polls' = 0
  /\ UNCHANGED histVars
  /\ UNCHANGED <<wsVars, fnVars>>
  /\ UNCHANGED <<inputVars, fileVars, loopVars, steps, nextID, callId,
                 callMethod, sent, framesRead, taken, cookies>>

(***************************************************************************)
(* cdpGetAllCookies and cdpClient.Call.                                    *)
(***************************************************************************)
\* cdpGetAllCookies creates the client with nextID: 1.
firstRequestID == 1

\* Text frames the browser may send.  A frame is either not valid JSON or
\* an envelope with or without an id, with or without an error field, and
\* with no result, a result that does not decode into the caller's output,
\* or a result holding a cookie list.
Frames ==
  {[valid |-> FALSE, hasId |-> FALSE, id |-> 0, err |-> FALSE,
    result |-> "none", cookies |-> <<>>]}
  \cup
  {[valid |-> TRUE, hasId |-> h, id |-> n, err |-> e, result |-> r,
    cookies |-> l] :
      h \in BOOLEAN, n \in 0..MaxId, e \in BOOLEAN,
      r \in {"none", "bad", "ok"}, l \in CookieLists \cup {<<>>}}

\* Frames in normal form: no id value without an id, no cookies without a
\* decodable result.
WellFormedFrames ==
  {f \in Frames : /\ (~f.hasId => f.id = 0)
                  /\ (f.result # "ok" => f.cookies = <<>>)}

\* envelope.ID after json.Unmarshal: an absent id leaves the zero value.
envelopeID(f) == IF f.hasId THEN f.id ELSE 0

\* Variant: any frame that decodes is taken as the reply.
isAwaitedReplyMut(f, id) == f.valid

\* The frame is the reply Call is waiting for: it decodes and carries the
\* awaited id.
isAwaitedReply(f, id) == f.valid /\ envelopeID(f) = id

\* Call passes an output only for Network.getAllCookies.
hasOut(method) == method = "Network.getAllCookies"

\* Variant: the error of a call without output is dropped.
callFailsMut(f, method) ==
  hasOut(method) /\ (f.err \/ f.result = "bad")

\* Call returns an error for the awaited reply: its error field is set, or
\* its result does not decode into the output.
callFails(f, method) ==
  f.err \/ (hasOut(method) /\ f.result = "bad")

\* What the log of returned calls keeps of the frame a Call took.
TakenEntry(id, f) ==
  [call |-> id, valid |-> f.valid, hasId |-> f.hasId, id |-> f.id,
   err |-> f.err]

WsDial ==
  /\ pc = "wsDial"
  /\ \E ok \in BOOLEAN :
       IF ok THEN /\ ws' = "open"
                  /\ nextID' = firstRequestID
                  /\ steps' = Append(steps, "handshake")
                  /\ callMethod' = "Network.enable"
                  /\ Goto("callSend")
                  /\ UNCHANGED <<proc, stopCalls>>
             ELSE /\ ExtractError
                  /\ UNCHANGED <<nextID, steps, callMethod>>
  /\ UNCHANGED histVars
  /\ UNCHANGED <<wsVars, fnVars>>
  /\ UNCHANGED <<inputVars, fileVars, loopVars, polls, callId, sent,
                 framesRead, taken, cookies>>

\* Call: take the next id and write the request frame.
CallSend ==
  /\ pc = "callSend"
  /\ callId' = nextID
  /\ nextID' = nextID + 1
  /\ framesRead' = 0
  /\ \E ok \in BOOLEAN :
       IF ok THEN /\ sent' = Append(sent, [id |-> nextID, method |-> callMethod])
                  /\ Goto("callRead")
                  /\ UNCHANGED procVars
             ELSE /\ ExtractError
                  /\ sent' = sent
  /\ UNCHANGED histVars
  /\ UNCHANGED <<wsVars, fnVars>>
  /\ UNCHANGED <<inputVars, fileVars, loopVars, polls, steps, callMethod,
                 taken, cookies>>

\* Call: ReadJSONRaw fails (transport error or close frame).
CallReadError ==
  /\ pc = "callRead"
  /\ ExtractError
  /\ steps' = Append(steps, "readError")
  /\ UNCHANGED histVars
  /\ UNCHANGED <<wsVars, fnVars>>
  /\ UNCHANGED <<inputVars, fileVars, loopVars, polls, nextID, callId,
                 callMethod, sent, framesRead, taken, cookies>>

continueAtMut(at) == "done"

\* continue: the loop of Call goes on to read the next message.
continueAt(at) == at

\* Call: ReadJSONRaw delivers a text frame.
CallReadFrame ==
  /\ pc = "callRead"
  /\ \E f \in WellFormedFrames :
       IF ~isAwaitedReply(f, callId)
         THEN \* not valid JSON, or another id: continue
              /\ framesRead < MaxFrames
              /\ framesRead' = framesRead + 1
              /\ Goto(continueAt(pc))
              /\ UNCHANGED <<procVars, steps, callMethod, taken, cookies>>
         ELSE IF callFails(f, callMethod)
                THEN \* the error field, or a result that does not decode
                     /\ ExtractError
                     /\ taken' = Append(taken, TakenEntry(callId, f))
                     /\ UNCHANGED <<framesRead, steps, callMethod, cookies>>
                ELSE /\ taken' = Append(taken, TakenEntry(callId, f))
                     /\ framesRead' = framesRead
                     /\ IF ~hasOut(callMethod)
                          THEN /\ steps' = Append(steps, "enable")
                               /\ callMethod' = "Network.getAllCookies"
                               /\ cookies' = cookies
                               /\ ws' = ws
                               /\ Goto("callSend")
                          ELSE /\ steps' = Append(steps, "cookies")
                               /\ callMethod' = callMethod
                               /\ cookies' = f.cookies
                               /\ ws' = "closed"
                               /\ Goto(IF mode = "get" THEN "mkTemp"
                                                       ELSE "authCheck")
                     /\ UNCHANGED <<proc, stopCalls>>
  /\ UNCHANGED histVars
  /\ UNCHANGED <<wsVars, fnVars>>
  /\ UNCHANGED <<inputVars, fileVars, loopVars, polls, nextID, callId, sent>>

(***************************************************************************)
(* exportCookiesFromChromeCDP after the cookies were read, and the rest of *)
(* tryDownloadWithChromeCDP.                                               *)
(***************************************************************************)
\* Variant: the temp file is left behind when it cannot be filled.
afterWriteErrorMut(file) == file

\* exportCookiesFromChromeCDP removes the temp file when
\* writeNetscapeCookieFile fails.
afterWriteError(file) == RemovedFile

\* os.CreateTemp("", "mingest-cookies-*.txt").
MkTemp ==
  /\ pc = "mkTemp"
  /\ \E ok \in BOOLEAN :
       IF ok THEN /\ cdpFile' = FileOf("temp", 0, <<>>)
                  /\ Goto("writeTemp")
                  /\ UNCHANGED procVars
             ELSE /\ ExtractError
                  /\ UNCHANGED cdpFile
  /\ UNCHANGED histVars
  /\ UNCHANGED <<wsVars, fnVars>>
  /\ UNCHANGED <<inputVars, cache, jarFile, loopVars, sessVars>>

\* writeNetscapeCookieFile(path, cookies, platform.AllowsCookieDomain); on
\* an error the temp file is removed; on success the function returns and
\* the deferred stop() runs.
WriteTemp ==
  /\ pc = "writeTemp"
  /\ \E ok \in BOOLEAN :
       IF ok THEN /\ cdpFile' = FileOf("cdp", Len(attempts),
                                       writtenCookies(cookies, platform))
                  /\ DeferredStop
                  /\ Goto("cdpCheck")
             ELSE /\ cdpFile' = afterWriteError(cdpFile)
                  /\ ExtractError
  /\ UNCHANGED histVars
  /\ UNCHANGED <<wsVars, fnVars>>
  /\ UNCHANGED <<inputVars, cache, jarFile, loopVars, sessVars>>

\* if !looksLikeLoggedIn(cookies, platform) { return exitAuthRequired },
\* with the deferred cleanup() removing the temp file.
CdpCheck ==
  /\ pc = "cdpCheck"
  /\ checkRes' = (IF looksLikeLoggedIn(cookies, platform) THEN "true"
                                                           ELSE "false")
  /\ IF promoteAllowed(checkRes')
       THEN /\ Goto("cdpRefresh")
            /\ UNCHANGED cdpFile
       ELSE /\ cdpFile' = RemovedFile
            /\ Return(exitAuthRequired)
  /\ UNCHANGED histVars
  /\ UNCHANGED <<wsVars, fnVars>>
  /\ UNCHANGED <<inputVars, cache, jarFile, tmpCookieFile, i, code, lastCode,
                 procVars, sessVars>>

\* Best-effort refresh of the persistent cache.
CdpRefresh ==
  /\ pc = "cdpRefresh"
  /\ IF cookieFile
       THEN \E ok \in BOOLEAN :
              cache' = (IF ok THEN FileOf("cdp", Len(attempts),
                                          writtenCookies(cookies, platform))
                              ELSE cache)
       ELSE cache' = cache
  /\ Goto("cdpRun")
  /\ UNCHANGED histVars
  /\ UNCHANGED <<wsVars, fnVars>>
  /\ UNCHANGED <<inputVars, jarFile, cdpFile, loopVars, procVars, sessVars>>

\* runYtDlp with the exported cookie file, then the deferred cleanup().
CdpRunYtDlp ==
  /\ pc = "cdpRun"
  /\ \E c \in YtDlpCodes : Return(c)
  /\ cdpFile' = RemovedFile
  /\ UNCHANGED histVars
  /\ UNCHANGED <<wsVars, fnVars>>
  /\ UNCHANGED <<inputVars, cache, jarFile, loopVars, procVars, sessVars>>

(***************************************************************************)
(* chromeAuthViaCDP after the cookies were read, and the rest of runAuth.  *)
(***************************************************************************)
\* Variant: chromeAuthViaCDP returns the cookies whatever they look like.
authCookiesAcceptedMut(res) == TRUE

\* if !looksLikeLoggedIn(cookies, platform) { return nil, errors.New(...) }
authCookiesAccepted(res) == res = "true"

AuthCheck ==
  /\ pc = "authCheck"
  /\ checkRes' = (IF looksLikeLoggedIn(cookies, platform) THEN "true"
                                                           ELSE "false")
  /\ IF authCookiesAccepted(checkRes')
       THEN /\ DeferredStop
            /\ Goto("authSave")
       ELSE ExtractError
  /\ UNCHANGED histVars
  /\ UNCHANGED <<wsVars, fnVars>>
  /\ UNCHANGED <<inputVars, fileVars, tmpCookieFile, i, code, lastCode,
                 sessVars>>

\* cookiesCacheFilePath and writeNetscapeCookieFile of the cache.
AuthSave ==
  /\ pc = "authSave"
  /\ \E pathOk \in BOOLEAN, writeOk \in BOOLEAN :
       IF pathOk /\ writeOk
         THEN /\ cache' = FileOf("auth", 0, writtenCookies(cookies, platform))
              /\ Return(exitOK)
         ELSE /\ cache' = cache
              /\ Return(exitCookieProblem)
  /\ UNCHANGED histVars
  /\ UNCHANGED <<wsVars, fnVars>>
  /\ UNCHANGED <<inputVars, jarFile, cdpFile, loopVars, procVars, sessVars>>

(***************************************************************************)
(* Specification.                                                          *)
(***************************************************************************)
Next ==
  \/ CacheAttempt
  \/ SkipCache
  \/ NoSources
  \/ BeginSources
  \/ SrcBegin
  \/ SrcRunYtDlp
  \/ SrcFilterTmp
  \/ SrcCheck
  \/ SrcCopy
  \/ SrcCleanup
  \/ CdpReturn
  \/ SrcNext
  \/ FindChrome
  \/ ProfileDir
  \/ ScPickFreePort
  \/ ScMkdirAll
  \/ ScStartProcess
  \/ PollDevTools
  \/ DevToolsTimeout
  \/ PollPageTarget
  \/ PageTargetTimeout
  \/ WsDial
  \/ CallSend
  \/ CallReadError
  \/ CallReadFrame
  \/ MkTemp
  \/ WriteTemp
  \/ CdpCheck
  \/ CdpRefresh
  \/ CdpRunYtDlp
  \/ AuthCheck
  \/ AuthSave

Spec == Init /\ [][Next]_vars

TypeOK ==
  /\ mode \in {"get", "auth"}
  /\ result \in YtDlpCodes \cup {Running}
  /\ proc \in {"none", "running", "stopped"}
  /\ ws \in {"none", "open", "closed"}
  /\ checkRes \in {"none", "true", "false", "err"}
  /\ stopCalls \in 0..1

(***************************************************************************)
(* Bytes.  A byte is a number in 0..255, a byte string a sequence of bytes.*)
(***************************************************************************)
RECURSIVE XorBits(_, _, _)
XorBits(a, b, n) ==
  IF n = 0
    THEN 0
    ELSE (((a % 2) + (b % 2)) % 2) + 2 * XorBits(a \div 2, b \div 2, n - 1)

\* a ^ b on bytes.
Xor(a, b) == XorBits(a, b, 8)

\* binary.BigEndian.PutUint16 (k = 2) and PutUint64 (k = 8).
RECURSIVE BigEndian(_, _)
BigEndian(n, k) ==
  IF k = 0 THEN <<>> ELSE Append(BigEndian(n \div 256, k - 1), n % 256)

\* readFrame refuses a 64-bit length above 10*1024*1024.
MaxPayload == 10485760

\* binary.BigEndian.Uint16 / Uint64, with every value above MaxPayload read
\* as MaxPayload + 1 (the code only compares such a value with the limit).
RECURSIVE UintUpTo(_, _)
UintUpTo(bs, acc) ==
  IF bs = <<>>
    THEN acc
    ELSE IF acc > (MaxPayload - Head(bs)) \div 256
           THEN MaxPayload + 1
           ELSE UintUpTo(Tail(bs), acc * 256 + Head(bs))

Uint(bs) == UintUpTo(bs, 0)

\* The byte string of length n that repeats the pattern pat.
Pay(n, pat) == [k \in 1..n |-> pat[((k - 1) % Len(pat)) + 1]]

(***************************************************************************)
(* wsConn.writeFrame.                                                      *)
(***************************************************************************)
OpText == 1
OpClose == 8
OpPing == 9
OpPong == 10

\* header := []byte{fin | opcode, 0x80}: the mask bit of the second byte.
maskBit == 128

\* The header before the mask key: fin | opcode, the mask bit with the
\* length class, and the extended length.
frameHeader(opcode, n) ==
  IF n <= 125
    THEN <<128 + opcode, maskBit + n>>
    ELSE IF n <= 65535
           THEN <<128 + opcode, maskBit + 126>> \o BigEndian(n, 2)
           ELSE <<128 + opcode, maskBit + 127>> \o BigEndian(n, 8)

\* Variant: the payload is written as it is.
maskedPayloadMut(payload, key) == payload

\* masked[i] = payload[i] ^ maskKey[i%4].
maskedPayload(payload, key) ==
  [k \in 1..Len(payload) |-> Xor(payload[k], key[((k - 1) % 4) + 1])]

\* The bytes writeFrame hands to the connection: header with the mask key,
\* then the masked payload.
frameBytes(opcode, payload, key) ==
  frameHeader(opcode, Len(payload)) \o key \o maskedPayload(payload, key)

\* Mask keys rand.Read may deliver.
MaskKeys == {<<18, 52, 86, 120>>, <<255, 0, 129, 7>>}

\* Outcomes of a writeFrame call: both writes succeed, rand.Read fails, or
\* a write on the connection fails.
WriteOutcomes == {"ok", "randErr", "writeErr"}

\* The entry of the connection log for a writeFrame call.
WriteEntry(opcode, payload, key, outcome) ==
  [dir |-> "write", opcode |-> opcode, payload |-> payload,
   outcome |-> outcome,
   bytes |-> IF outcome = "ok" THEN frameBytes(opcode, payload, key)
                               ELSE <<>>]

(***************************************************************************)
(* wsConn.readFrame.                                                       *)
(***************************************************************************)
\* Variant: a frame is never taken as masked.
frameIsMaskedMut(b1) == FALSE

\* mask := (b1 & 0x80) != 0.
frameIsMasked(b1) == b1 >= 128

\* Length of the extended length field for the 7-bit length len7.
extLength(len7) == IF len7 = 126 THEN 2 ELSE IF len7 = 127 THEN 8 ELSE 0

\* Variant: a length of exactly 10 MiB is refused too.
payloadTooLargeMut(ext, n) == ext = 8 /\ n >= MaxPayload

\* case 127: if n > 10*1024*1024.  The 7-bit and the 16-bit length are not
\* compared with the limit.
payloadTooLarge(ext, n) == ext = 8 /\ n > MaxPayload

\* An error of a read of the connection (io.EOF, io.ErrUnexpectedEOF).
ReadError == [err |-> TRUE, opcode |-> 0, payload |-> <<>>, masked |-> FALSE,
              used |-> 0, why |-> "eof"]

\* errors.New("WebSocket payload 过大"), returned before the mask key and
\* the payload are read.
TooLargeError == [ReadError EXCEPT !.why = "tooLarge"]

\* readFrame on the unread bytes bs: an error, or the opcode and payload of
\* the first frame, whether it was unmasked, and the bytes consumed.
readFrame(bs) ==
  IF Len(bs) < 2
    THEN ReadError
    ELSE
      LET opcode == bs[1] % 16
          mask == frameIsMasked(bs[2])
          len7 == bs[2] % 128
          ext == extLength(len7)
      IN  IF Len(bs) < 2 + ext
            THEN ReadError
            ELSE
              LET payloadLen == IF ext = 0 THEN len7
                                           ELSE Uint(SubSeq(bs, 3, 2 + ext))
                  keyLen == IF mask THEN 4 ELSE 0
                  start == 2 + ext + keyLen
              IN  IF payloadTooLarge(ext, payloadLen)
                    THEN TooLargeError
                    ELSE IF Len(bs) < start + payloadLen
                    THEN ReadError
                    ELSE
                      LET raw == SubSeq(bs, start + 1, start + payloadLen)
                          key == SubSeq(bs, 2 + ext + 1, start)
                      IN  [err |-> FALSE,
                           opcode |-> opcode,
                           payload |-> IF mask THEN maskedPayload(raw, key)
                                               ELSE raw,
                           masked |-> mask,
                           used |-> start + payloadLen,
                           why |-> "none"]

\* The entry of the connection log for a frame readFrame returned.
ReadEntry(r) ==
  [dir |-> "read", opcode |-> r.opcode, payload |-> r.payload,
   masked |-> r.masked, used |-> r.used]

(***************************************************************************)
(* Frames a server may send.  A frame is described by its opcode, its      *)
(* payload, whether it is masked, the length class it is sent in (a server *)
(* may use a longer length field than the payload needs), and its FIN bit: *)
(* a message may be sent as a text frame with FIN = 0 followed by          *)
(* continuation frames (opcode 0x0), the last one with FIN = 1.            *)
(***************************************************************************)
ServerKey == <<18, 52, 86, 120>>

ServerFrame(opcode, payload, masked, class) ==
  [opcode |-> opcode, payload |-> payload, masked |-> masked,
   class |-> class, fin |-> TRUE]

\* The opcode of a continuation frame: readFrame returns it as any other
\* opcode, b0 & 0x0f.
OpContinuation == 0

\* A frame that is not the last one of its message.
NonFinal(d) == [d EXCEPT !.fin = FALSE]

\* A text frame in every encoding, pings with a short and with a 126-byte
\* payload, a pong, a close frame and a binary frame.
ServerFrames ==
  {ServerFrame(OpText, <<123, 125>>, FALSE, 7),
   ServerFrame(OpText, <<123, 125>>, TRUE, 7),
   ServerFrame(OpText, <<123, 125>>, FALSE, 16),
   ServerFrame(OpText, <<123, 125>>, TRUE, 64),
   ServerFrame(OpPing, <<7, 8, 9, 10, 11>>, FALSE, 7),
   ServerFrame(OpPing, <<7, 8, 9, 10, 11>>, TRUE, 7),
   ServerFrame(OpPing, Pay(126, <<112>>), FALSE, 16),
   ServerFrame(OpPong, <<1>>, FALSE, 7),
   ServerFrame(OpClose, <<3, 232>>, FALSE, 7),
   ServerFrame(2, <<5>>, TRUE, 7)}

\* The bytes of a server frame on the wire.
serverFrameBytes(d) ==
  LET n == Len(d.payload)
      m == IF d.masked THEN 128 ELSE 0
  IN  <<(IF d.fin THEN 128 ELSE 0) + d.opcode,
        m + (IF d.class = 7 THEN n ELSE IF d.class = 16 THEN 126 ELSE 127)>>
      \o (IF d.class = 7 THEN <<>>
          ELSE IF d.class = 16 THEN BigEndian(n, 2) ELSE BigEndian(n, 8))
      \o (IF d.masked THEN ServerKey ELSE <<>>)
      \o (IF d.masked THEN maskedPayload(d.payload, ServerKey) ELSE d.payload)

RECURSIVE streamBytes(_)
streamBytes(ds) ==
  IF ds = <<>> THEN <<>>
               ELSE serverFrameBytes(Head(ds)) \o streamBytes(Tail(ds))

\* What follows the frames of a stream: the connection ends, it ends in the
\* middle of a text frame, or a frame announces 2^32 bytes.
StreamTails == {"end", "truncated", "tooBig"}

tailBytes(t) ==
  IF t = "truncated" THEN <<129, 2, 123>>
  ELSE IF t = "tooBig" THEN <<129, 127, 0, 0, 0, 1, 0, 0, 0, 0>>
  ELSE <<>>

(***************************************************************************)
(* Calls on a connection taken alone: WriteJSON on a payload of each       *)
(* length class, and ReadJSONRaw on a stream of server frames.             *)
(***************************************************************************)
MaxInFrames == 2

\* The main program is not running.
MainIdle ==
  /\ mode = "idle"
  /\ platform = unknownPlatform
  /\ sources = <<>>
  /\ cookieFile = FALSE
  /\ pc = "idle"
  /\ cache = NoFile
  /\ jarFile = NoFile
  /\ cdpFile = NoFile
  /\ tmpCookieFile = FALSE
  /\ i = 0
  /\ code = Running
  /\ lastCode = Running
  /\ cdpCode = Running
  /\ result = Running
  /\ checkRes = "none"
  /\ attempts = <<>>
  /\ attemptCode = Running
  /\ proc = "none"
  /\ stopCalls = 0
  /\ ws = "none"
  /\ polls = 0
  /\ steps = <<>>
  /\ nextID = 0
  /\ callId = 0
  /\ callMethod = "none"
  /\ sent = <<>>
  /\ framesRead = 0
  /\ taken = <<>>
  /\ cookies = <<>>
  /\ cdpError = "none"
  /\ onlyRetryable = TRUE

\* Payload lengths at and around the borders of the three length classes.
WriteLengths == {0, 2, 125, 126, 65535, 65536}

WritePayloads == {Pay(n, <<123, 34, 97>>) : n \in WriteLengths}

\* The mask keys drawn for a payload (one key for the long payloads).
KeysFor(payload) ==
  IF Len(payload) <= 126 THEN MaskKeys ELSE {ServerKey}

ServerStreams ==
  {[frames |-> fs, tail |-> t] :
     fs \in SeqsUpTo(ServerFrames, MaxInFrames), t \in StreamTails}

\* Streams that hold the message {"id":1} in two or three frames, alone,
\* with a ping between the frames, after a whole message, and before one.
FragmentedStreams ==
  LET first == NonFinal(ServerFrame(OpText, <<123, 34, 105>>, FALSE, 7))
      middle == NonFinal(ServerFrame(OpContinuation, <<100, 34>>, TRUE, 7))
      last == ServerFrame(OpContinuation, <<58, 49, 125>>, FALSE, 7)
      rest == ServerFrame(OpContinuation, <<100, 34, 58, 49, 125>>, FALSE, 7)
      ping == ServerFrame(OpPing, <<7>>, FALSE, 7)
      whole == ServerFrame(OpText, <<123, 125>>, FALSE, 7)
  IN  {[frames |-> fs, tail |-> "end"] :
         fs \in {<<first, rest>>,
                 <<first, middle, last>>,
                 <<first, ping, rest>>,
                 <<ping, first, rest>>,
                 <<first, rest, whole>>}}

(***************************************************************************)
(* writeNetscapeCookieFile.  A chromeCookie here has all the fields the    *)
(* file keeps; its text fields are sequences of characters, and Expires,   *)
(* a float64 in the code, is a fraction num/den with den > 0.              *)
(***************************************************************************)
chromeCookie(name, value, domain, path, expires, secure) ==
  [name |-> name, value |-> value, domain |-> domain, path |-> path,
   expires |-> expires, secure |-> secure]

Frac(num, den) == [num |-> num, den |-> den]

\* int64(x): the fraction truncated toward zero.
Int64Of(x) ==
  IF x.num >= 0 THEN x.num \div x.den ELSE 0 - ((0 - x.num) \div x.den)

Digits == <<"0", "1", "2", "3", "4", "5", "6", "7", "8", "9">>

\* strconv.FormatInt(n, 10).
RECURSIVE FormatInt(_)
FormatInt(n) ==
  IF n < 0 THEN <<"-">> \o FormatInt(0 - n)
  ELSE IF n < 10 THEN <<Digits[n + 1]>>
  ELSE FormatInt(n \div 10) \o <<Digits[(n % 10) + 1]>>

expiresColumnMut(x) == FormatInt(Int64Of(x))

\* expires := ""; if c.Expires > 0 { expires = FormatInt(int64(c.Expires)) }.
expiresColumn(x) ==
  IF x.num > 0 THEN FormatInt(Int64Of(x)) ELSE <<>>

BoolColumn(b) ==
  IF b THEN <<"T", "R", "U", "E">> ELSE <<"F", "A", "L", "S", "E">>

\* The allowDomain argument: nil, or the AllowsCookieDomain of a platform.
DomainFilter(isNil, p) == [isNil |-> isNil, p |-> p]

passesFilter(f, domain) == f.isNil \/ AllowsCookieDomain(f.p, domain)

cookieSkippedMut(f, c) == ~passesFilter(f, c.domain)

\* The two continue statements of the loop over the cookies.
cookieSkipped(f, c) ==
  ~passesFilter(f, c.domain) \/ TrimSpace(c.domain) = <<>>

\* The record Fprintf writes for a cookie.
cookieLine(c) ==
  c.domain \o <<"\t">> \o BoolColumn(HasPrefix(c.domain, <<".">>))
    \o <<"\t">> \o c.path \o <<"\t">> \o BoolColumn(c.secure)
    \o <<"\t">> \o expiresColumn(c.expires) \o <<"\t">> \o c.name
    \o <<"\t">> \o c.value \o <<"\n">>

FileHeader ==
  <<"#", " ", "N", "e", "t", "s", "c", "a", "p", "e", " ", "H", "T", "T",
    "P", " ", "C", "o", "o", "k", "i", "e", " ", "F", "i", "l", "e",
    "\n">>
  \o
  <<"#", " ", "T", "h", "i", "s", " ", "f", "i", "l", "e", " ", "w", "a",
    "s", " ", "g", "e", "n", "e", "r", "a", "t", "e", "d", " ", "b", "y",
    " ", "m", "i", "n", "g", "e", "s", "t", ".", " ", "D", "O", " ", "N",
    "O", "T", " ", "E", "D", "I", "T", ".", "\n">>

RECURSIVE cookieLines(_, _)
cookieLines(cks, f) ==
  IF cks = <<>> THEN <<>>
  ELSE (IF cookieSkipped(f, Head(cks)) THEN <<>>
                                       ELSE cookieLine(Head(cks)))
       \o cookieLines(Tail(cks), f)

\* The text of the file writeNetscapeCookieFile leaves.
writeNetscapeCookieFile(cks, f) == FileHeader \o cookieLines(cks, f)

(***************************************************************************)
(* wsDial.  Text is a sequence of characters.  A response is described by  *)
(* its status line (the text, the status code it carries and whether the  *)
(* line is well formed) and its header block.                              *)
(***************************************************************************)
CRLF == <<"\r", "\n">>

HttpVersion == <<"H", "T", "T", "P", "/", "1", ".", "1">>

\* strings.Contains.
Contains(str, sub) ==
  \E k \in 0..(Len(str) - Len(sub)) : SubSeq(str, k + 1, k + Len(sub)) = sub

\* br.ReadString('\n'): the text up to and including the first newline and
\* what is left, or an error when the text ends without one.
ReadString(bs) ==
  IF \E k \in DOMAIN bs : bs[k] = "\n"
    THEN LET k == CHOOSE k \in DOMAIN bs :
                    bs[k] = "\n" /\ \A j \in 1..(k - 1) : bs[j] # "\n"
         IN  [err |-> FALSE, line |-> SubSeq(bs, 1, k),
              rest |-> SubSeq(bs, k + 1, Len(bs))]
    ELSE [err |-> TRUE, line |-> bs, rest |-> <<>>]

\* The loop that reads headers until the line "\r\n": TRUE when it breaks,
\* FALSE when ReadString fails first.
RECURSIVE headersDrained(_)
headersDrained(bs) ==
  LET r == ReadString(bs)
  IN  IF r.err THEN FALSE
      ELSE IF r.line = CRLF THEN TRUE
      ELSE headersDrained(r.rest)

\* strings.Contains(statusLine, " 101 ").
statusAccepted(statusLine) == Contains(statusLine, <<" ", "1", "0", "1", " ">>)

\* What Dial, rand.Read and the write of the request can do.
DialOutcomes == {"ok", "dialErr", "randErr", "writeErr"}

\* wsDial: "conn" when it returns a connection, "error" otherwise.
wsDial(scheme, io, resp) ==
  IF scheme # "ws" THEN "error"
  ELSE IF io # "ok" THEN "error"
  ELSE LET st == ReadString(resp)
       IN  IF st.err THEN "error"
           ELSE IF ~statusAccepted(st.line) THEN "error"
           ELSE IF headersDrained(st.rest) THEN "conn"
           ELSE "error"

Schemes == {"ws", "wss", "http", ""}

StatusLine(text, statusCode, wellFormed) ==
  [text |-> text, code |-> statusCode, wellFormed |-> wellFormed]

\* Status lines: 101, 200, a 400 whose reason phrase holds " 101 ", a 101
\* with no space after the code, a line that is not a status line, and a
\* status line cut before its end.
StatusLines ==
  {StatusLine(HttpVersion \o <<" ", "1", "0", "1", " ", "U", "p">> \o CRLF,
              101, TRUE),
   StatusLine(HttpVersion \o <<" ", "2", "0", "0", " ", "O", "K">> \o CRLF,
              200, TRUE),
   StatusLine(HttpVersion \o <<" ", "4", "0", "0", " ", "n", "o", " ",
                               "1", "0", "1", " ", "x">> \o CRLF,
              400, TRUE),
   StatusLine(HttpVersion \o <<" ", "1", "0", "1">> \o CRLF, 101, FALSE),
   StatusLine(<<"x", " ", "1", "0", "1", " ", "\n">>, 0, FALSE),
   StatusLine(HttpVersion \o <<" ", "1", "0", "1", " ", "U">>, 101, FALSE)}

HeaderBlock(text, wellFormed) == [text |-> text, wellFormed |-> wellFormed]

\* Header blocks: one header, none, one header and no blank line, a line
\* that is no header, and bare newlines instead of CRLF.
HeaderBlocks ==
  {HeaderBlock(<<"A", ":", " ", "b">> \o CRLF \o CRLF, TRUE),
   HeaderBlock(CRLF, TRUE),
   HeaderBlock(<<"A", ":", " ", "b">> \o CRLF, FALSE),
   HeaderBlock(<<"j", "u", "n", "k">> \o CRLF \o CRLF, FALSE),
   HeaderBlock(<<"A", ":", " ", "b", "\n", "\n">>, FALSE)}

DialInputs ==
  {[scheme |-> sc, status |-> st, headers |-> h] :
     sc \in Schemes, st \in StatusLines, h \in HeaderBlocks}

WsRetOf(kind, payload) == [kind |-> kind, payload |-> payload]

WsInit ==
  /\ MainIdle
  /\ FnIdle
  /\ wsLog = <<>>
  /\ wsRet = WsRetOf("none", <<>>)
  /\ \/ /\ wsPhase = "write"
        /\ wsArg \in WritePayloads
        /\ wsIn = <<>>
     \/ /\ wsPhase = "read"
        /\ wsArg \in ServerStreams \cup FragmentedStreams
        /\ wsIn = streamBytes(wsArg.frames) \o tailBytes(wsArg.tail)
     \/ /\ wsPhase = "dial"
        /\ wsArg \in DialInputs
        /\ wsIn = wsArg.status.text \o wsArg.headers.text

\* WriteJSON: writeFrame(0x1, b).
WsWriteJSON ==
  /\ wsPhase = "write"
  /\ \E key \in KeysFor(wsArg), outcome \in WriteOutcomes :
       /\ wsLog' = Append(wsLog, WriteEntry(OpText, wsArg, key, outcome))
       /\ wsRet' = WsRetOf(IF outcome = "ok" THEN "nil" ELSE "error", <<>>)
  /\ wsPhase' = "written"
  /\ UNCHANGED <<mainVars, fnVars, wsArg, wsIn>>

\* The bytes left after readFrame returned r.
restAfter(bs, r) == SubSeq(bs, r.used + 1, Len(bs))

\* ReadJSONRaw: readFrame fails.
RjReadError ==
  /\ wsPhase = "read"
  /\ readFrame(wsIn).err
  /\ wsRet' = WsRetOf("error", <<>>)
  /\ wsPhase' = "readDone"
  /\ wsIn' = <<>>
  /\ UNCHANGED <<mainVars, fnVars, wsArg, wsLog>>

\* ReadJSONRaw: case 0x1, the payload is returned.
RjText ==
  /\ wsPhase = "read"
  /\ LET r == readFrame(wsIn)
     IN  /\ ~r.err
         /\ r.opcode = OpText
         /\ wsLog' = Append(wsLog, ReadEntry(r))
         /\ wsIn' = restAfter(wsIn, r)
         /\ wsRet' = WsRetOf("payload", r.payload)
  /\ wsPhase' = "readDone"
  /\ UNCHANGED <<mainVars, fnVars, wsArg>>

pongReplyMut(payload, key, outcome) ==
  WriteEntry(OpPong, <<>>, key, outcome)

\* The reply to a ping: writeFrame(0xA, payload).
pongReply(payload, key, outcome) ==
  WriteEntry(OpPong, payload, key, outcome)

\* ReadJSONRaw: case 0x9, _ = w.writeFrame(0xA, payload); continue.
RjPing ==
  /\ wsPhase = "read"
  /\ LET r == readFrame(wsIn)
     IN  /\ ~r.err
         /\ r.opcode = OpPing
         /\ \E key \in KeysFor(r.payload), outcome \in WriteOutcomes :
              wsLog' = wsLog \o <<ReadEntry(r),
                                  pongReply(r.payload, key, outcome)>>
         /\ wsIn' = restAfter(wsIn, r)
  /\ UNCHANGED <<mainVars, fnVars, wsArg, wsPhase, wsRet>>

\* ReadJSONRaw: case 0xA and default, continue.
RjSkip ==
  /\ wsPhase = "read"
  /\ LET r == readFrame(wsIn)
     IN  /\ ~r.err
         /\ r.opcode \notin {OpText, OpPing, OpClose}
         /\ wsLog' = Append(wsLog, ReadEntry(r))
         /\ wsIn' = restAfter(wsIn, r)
  /\ UNCHANGED <<mainVars, fnVars, wsArg, wsPhase, wsRet>>

\* ReadJSONRaw: case 0x8, io.EOF is returned.
RjClose ==
  /\ wsPhase = "read"
  /\ LET r == readFrame(wsIn)
     IN  /\ ~r.err
         /\ r.opcode = OpClose
         /\ wsLog' = Append(wsLog, ReadEntry(r))
         /\ wsIn' = restAfter(wsIn, r)
  /\ wsRet' = WsRetOf("eof", <<>>)
  /\ wsPhase' = "readDone"
  /\ UNCHANGED <<mainVars, fnVars, wsArg>>

\* wsDial on a URL and the response of the server.
WsDialAlone ==
  /\ wsPhase = "dial"
  /\ \E io \in DialOutcomes :
       wsRet' = WsRetOf(wsDial(wsArg.scheme, io, wsIn), <<>>)
  /\ wsPhase' = "dialed"
  /\ UNCHANGED <<mainVars, fnVars, wsArg, wsIn, wsLog>>

WsNext ==
  \/ WsDialAlone
  \/ WsWriteJSON
  \/ RjReadError
  \/ RjText
  \/ RjPing
  \/ RjSkip
  \/ RjClose

WsSpec == WsInit /\ [][WsNext]_vars

(***************************************************************************)
(* buildAuthSources.  Browser names are sequences of characters here, as   *)
(* the override is trimmed and lower-cased.                                *)
(***************************************************************************)
BrChrome == <<"c", "h", "r", "o", "m", "e">>
BrFirefox == <<"f", "i", "r", "e", "f", "o", "x">>
BrChromium == <<"c", "h", "r", "o", "m", "i", "u", "m">>
BrEdge == <<"e", "d", "g", "e">>

\* detectBrowsers: the browsers whose data directory exists, in the order
\* of its checks; nil when the home directory or the system is unknown.
detectBrowsers(dirs, known) ==
  IF known
    THEN SelectSeq(<<BrChrome, BrChromium, BrEdge, BrFirefox>>,
                   LAMBDA b : b \in dirs)
    ELSE <<>>

contains(list, v) == \E k \in DOMAIN list : list[k] = v

pick(list, v) == IF contains(list, v) THEN list ELSE Append(list, v)

wantedMut(available, v) == contains(available, v)

\* contains(available, v) || len(available) == 0.
wanted(available, v) == contains(available, v) \/ Len(available) = 0

autoBrowserOrder(available) ==
  IF Len(available) = 1
    THEN available
    ELSE LET o1 == IF wanted(available, BrChrome) THEN pick(<<>>, BrChrome)
                                                  ELSE <<>>
             o2 == IF wanted(available, BrFirefox) THEN pick(o1, BrFirefox)
                                                   ELSE o1
             o3 == IF wanted(available, BrChromium) THEN pick(o2, BrChromium)
                                                    ELSE o2
         IN  IF wanted(available, BrEdge) THEN pick(o3, BrEdge) ELSE o3

authSource(value) == [Kind |-> "browser", Value |-> value]

\* buildAuthSources, given the value of MINGEST_BROWSER and what
\* detectBrowsers returns.
buildAuthSources(env, available) ==
  LET v == TrimSpace(env)
  IN  IF v # <<>>
        THEN <<authSource(ToLower(v))>>
        ELSE LET browsers == autoBrowserOrder(available)
             IN  [k \in DOMAIN browsers |-> authSource(browsers[k])]

\* Values of MINGEST_BROWSER: unset, blank, and names in several spellings.
BrowserOverrides ==
  {<<>>, <<" ">>, BrFirefox, <<"E", "d", "g", "e">>,
   <<" ", "C", "h", "r", "o", "m", "e", " ">>}

(***************************************************************************)
(* Functions taken alone: each is called once on arguments drawn from a    *)
(* bounded set.                                                            *)
(***************************************************************************)
MaxCookies == 2

DomYoutube == <<"y", "o", "u", "t", "u", "b", "e", ".", "c", "o", "m">>

\* Cookies handed to writeNetscapeCookieFile: a session cookie (Chrome
\* reports -1), expiry 0, -1/2 and 1/2, an expiry with a fraction, a blank
\* and an empty domain, a foreign domain.
WriterCookies ==
  {chromeCookie(<<"S", "E", "S", "S", "D", "A", "T", "A">>, <<"t", "o", "k">>, DomDotBilibili, <<"/">>, Frac(-1, 1), TRUE),
   chromeCookie(<<"a">>, <<>>, DomWwwBilibili, <<"/", "v">>, Frac(0, 1),
                FALSE),
   chromeCookie(<<"b">>, <<"1">>, DomBilibili, <<"/">>,
                Frac(2000000001, 2), TRUE),
   chromeCookie(<<"c">>, <<"2">>, DomDotBilibili, <<"/">>, Frac(1, 2), FALSE),
   chromeCookie(<<"d">>, <<"3">>, DomAdnetwork, <<"/">>, Frac(-1, 2), FALSE),
   chromeCookie(<<"e">>, <<"4">>, <<" ">>, <<"/">>, Frac(7, 1), FALSE),
   chromeCookie(<<"f">>, <<"5">>, <<>>, <<"/">>, Frac(-1, 1), TRUE)}

DomainFilters ==
  {DomainFilter(TRUE, unknownPlatform),
   DomainFilter(FALSE, unknownPlatform),
   DomainFilter(FALSE, bilibiliPlatformRec)}

\* Platforms given to AllowsCookieDomain: the built-in one, one for
\* youtube.com, one whose suffix list has a blank entry and capitals, and
\* the platform without suffixes.
youtubeLike ==
  [ID |-> "youtube", CookieDomainSuffixes |-> <<DomYoutube>>,
   AuthCookieNames |-> <<"SID">>]

youtubeMixed ==
  [ID |-> "youtube", AuthCookieNames |-> <<"SID">>,
   CookieDomainSuffixes |-> <<<<>>, <<"Y", "o", "u", "T", "u", "b", "e", ".", "c", "o", "m">>>>]

FilterPlatforms ==
  {bilibiliPlatformRec, youtubeLike, youtubeMixed, unknownPlatform}

DomNotYoutube == <<"n", "o", "t", "y", "o", "u", "t", "u", "b", "e", ".", "c", "o", "m">>

DomAdnetworkExample == <<"a", "d", "n", "e", "t", "w", "o", "r", "k", ".", "e", "x", "a", "m",
    "p", "l", "e">>

\* Domains given to AllowsCookieDomain.
FilterDomains ==
  {DomYoutube, <<".">> \o DomYoutube, <<".", ".">> \o DomYoutube,
   <<"Y", "o", "u", "T", "u", "b", "e", ".", "C", "O", "M">>,
   <<"w", "w", "w", ".">> \o DomYoutube,
   <<"M", ".", "Y", "O", "U", "T", "U", "B", "E", ".", "c", "o", "m">>,
   DomNotYoutube, <<".">> \o DomNotYoutube, DomAdnetworkExample,
   DomYoutube \o <<".", "e", "x">>,
   <<>>, <<".">>, <<" ">>,
   <<" ">> \o DomYoutube \o <<" ">>,
   DomBilibili, <<".", "B", "i", "l", "i", "B", "i", "l", "i", ".", "c", "o", "m">>, DomAdnetwork}

\* Platforms given to looksLikeLoggedIn: the built-in one, one with names
\* and no suffixes, one with suffixes and no names, and the zero platform.
namesOnly ==
  [ID |-> "n", CookieDomainSuffixes |-> <<>>,
   AuthCookieNames |-> <<"sid", "SESSDATA">>]

suffixesOnly ==
  [ID |-> "s", CookieDomainSuffixes |-> <<DomBilibili>>,
   AuthCookieNames |-> <<>>]

AuthPlatforms == {bilibiliPlatformRec, namesOnly, suffixesOnly, unknownPlatform}

AuthCookies == {CkAuth, CkAuthEmpty, CkAuthForeign, CkOther}

\* strings.Split: the pieces of str between the separators.
RECURSIVE SplitOn(_, _)
SplitOn(str, sep) ==
  IF \E k \in DOMAIN str : str[k] = sep
    THEN LET k == CHOOSE k \in DOMAIN str :
                    str[k] = sep /\ \A j \in 1..(k - 1) : str[j] # sep
         IN  <<SubSeq(str, 1, k - 1)>>
               \o SplitOn(SubSeq(str, k + 1, Len(str)), sep)
    ELSE <<str>>

\* The records of a cookie file: the columns of each line that is neither
\* empty nor a comment.
fileRecords(text) ==
  LET lines == SelectSeq(SplitOn(text, "\n"),
                         LAMBDA l : l # <<>> /\ Head(l) # "#")
  IN  [k \in DOMAIN lines |-> SplitOn(lines[k], "\t")]

\* Frames given to readFrame alone: the 7-bit length, the mask bit, the bytes
\* of the extended length, and whether the mask key and the payload follow
\* or the connection ends after the length.  The 64-bit lengths are 0, 3,
\* 2^16, 10 MiB - 1, 10 MiB, 10 MiB + 1, 2^24, 2^32, 2^63 and 2^64 - 1.
ExtFields(len7) ==
  IF len7 = 126
    THEN {<<0, 0>>, <<0, 3>>, <<0, 126>>, <<255, 255>>}
    ELSE IF len7 = 127
           THEN {<<0, 0, 0, 0, 0, 0, 0, 0>>, <<0, 0, 0, 0, 0, 0, 0, 3>>,
                 <<0, 0, 0, 0, 0, 1, 0, 0>>, <<0, 0, 0, 0, 0, 159, 255, 255>>,
                 <<0, 0, 0, 0, 0, 160, 0, 0>>, <<0, 0, 0, 0, 0, 160, 0, 1>>,
                 <<0, 0, 0, 0, 1, 0, 0, 0>>, <<0, 0, 0, 1, 0, 0, 0, 0>>,
                 <<128, 0, 0, 0, 0, 0, 0, 0>>,
                 <<255, 255, 255, 255, 255, 255, 255, 255>>}
           ELSE {<<>>}

\* The payload is sent in full only for a short frame.
ShortLength(len7, ext) ==
  IF len7 < 126 THEN len7
  ELSE IF \A k \in 1..(Len(ext) - 1) : ext[k] = 0 THEN ext[Len(ext)]
  ELSE -1

FrameReads ==
  UNION {{[len7 |-> l, masked |-> m, ext |-> e, follows |-> f] :
            m \in BOOLEAN, e \in ExtFields(l), f \in BOOLEAN} :
         l \in {0, 3, 125, 126, 127}}

frameReadBytes(a) ==
  <<128 + OpText, (IF a.masked THEN maskBit ELSE 0) + a.len7>> \o a.ext
    \o (IF a.follows
          THEN LET data == Pay(ShortLength(a.len7, a.ext), <<97>>)
               IN  IF a.masked
                     THEN ServerKey \o maskedPayload(data, ServerKey)
                     ELSE data
          ELSE <<>>)

FnInit ==
  /\ MainIdle
  /\ WsIdle
  /\ fnOut = "none"
  /\ \/ /\ fnName = "AllowsCookieDomain"
        /\ fnArg \in {[p |-> p, domain |-> d] :
                        p \in FilterPlatforms, d \in FilterDomains}
     \/ /\ fnName = "looksLikeLoggedIn"
        /\ fnArg \in {[cookies |-> cs, p |-> p] :
                        cs \in SeqsUpTo(AuthCookies, MaxCookies),
                        p \in AuthPlatforms}
     \/ /\ fnName = "buildAuthSources"
        /\ fnArg \in {[env |-> e, dirs |-> ds, known |-> kn] :
                        e \in BrowserOverrides,
                        ds \in SUBSET {BrChrome, BrFirefox, BrChromium,
                                       BrEdge},
                        kn \in BOOLEAN}
     \/ /\ fnName = "writeNetscapeCookieFile"
        /\ fnArg \in {[cookies |-> cs, filter |-> f] :
                        cs \in SeqsUpTo(WriterCookies, MaxCookies),
                        f \in DomainFilters}
     \/ /\ fnName = "readFrame"
        /\ fnArg \in {a \in FrameReads :
                        a.follows => ShortLength(a.len7, a.ext) >= 0}

\* w.readFrame() on the bytes of one frame.
FnReadFrame ==
  /\ fnName = "readFrame"
  /\ fnOut' = readFrame(frameReadBytes(fnArg))
  /\ fnName' = "readFrame.ret"
  /\ UNCHANGED <<mainVars, wsVars, fnArg>>

\* writeNetscapeCookieFile: os.Create fails, or the file is written.
FnWriteNetscapeCookieFile ==
  /\ fnName = "writeNetscapeCookieFile"
  /\ \E created \in BOOLEAN :
       fnOut' = [err |-> ~created,
                 text |-> IF created
                            THEN writeNetscapeCookieFile(fnArg.cookies,
                                                         fnArg.filter)
                            ELSE <<>>]
  /\ fnName' = "writeNetscapeCookieFile.ret"
  /\ UNCHANGED <<mainVars, wsVars, fnArg>>

\* p.AllowsCookieDomain(domain).
FnAllowsCookieDomain ==
  /\ fnName = "AllowsCookieDomain"
  /\ fnOut' = AllowsCookieDomain(fnArg.p, fnArg.domain)
  /\ fnName' = "AllowsCookieDomain.ret"
  /\ UNCHANGED <<mainVars, wsVars, fnArg>>

\* looksLikeLoggedIn(cookies, platform).
FnLooksLikeLoggedIn ==
  /\ fnName = "looksLikeLoggedIn"
  /\ fnOut' = looksLikeLoggedIn(fnArg.cookies, fnArg.p)
  /\ fnName' = "looksLikeLoggedIn.ret"
  /\ UNCHANGED <<mainVars, wsVars, fnArg>>

\* buildAuthSources().
FnBuildAuthSources ==
  /\ fnName = "buildAuthSources"
  /\ fnOut' = buildAuthSources(fnArg.env,
                               detectBrowsers(fnArg.dirs, fnArg.known))
  /\ fnName' = "buildAuthSources.ret"
  /\ UNCHANGED <<mainVars, wsVars, fnArg>>

FnNext ==
  \/ FnReadFrame
  \/ FnBuildAuthSources
  \/ FnLooksLikeLoggedIn
  \/ FnAllowsCookieDomain
  \/ FnWriteNetscapeCookieFile

FnSpec == FnInit /\ [][FnNext]_vars

(***************************************************************************)
(* The two polling loops of the DevTools endpoint, taken alone.  Time is   *)
(* counted in units of the loops' sleep of 200 ms and starts at 0 when the *)
(* function is entered, so the deadline is the timeout.  A request lasts   *)
(* between 0 units and the client's timeout of one second, whatever the    *)
(* browser does; fnOut holds the loop's clock, its polls and its result.   *)
(***************************************************************************)
SleepTicks == 1
ClientTimeout == 5
MaxTimeout == 2

devToolsTarget(type, wsURL) ==
  [Type |-> type, WebSocketDebuggerURL |-> wsURL]

WsUrlA == <<"w", "s", ":", "a">>
WsUrlB == <<"w", "s", ":", "b">>

PageA == devToolsTarget("page", WsUrlA)
PageB == devToolsTarget("page", WsUrlB)
PageNoURL == devToolsTarget("page", <<>>)
PageBlankURL == devToolsTarget("page", <<" ">>)
WorkerA == devToolsTarget("service_worker", WsUrlA)

\* Lists of targets the browser can answer with: none, one or two entries,
\* with and without a page target that has a debugger URL.
TargetLists ==
  { <<>>, <<WorkerA>>, <<PageNoURL>>, <<PageBlankURL>>,
    <<WorkerA, PageBlankURL>>, <<PageNoURL, WorkerA>>,
    <<PageA>>, <<PageB, PageA>>, <<PageNoURL, PageB>>,
    <<WorkerA, PageA>>, <<PageBlankURL, PageB>> }

\* for time.Now().Before(deadline)
beforeDeadline(now, deadline) == now < deadline

\* err == nil && resp != nil && resp.StatusCode == 200
devToolsReadyMut(status) == status # "error"

devToolsReady(status) == status = "200"

\* t.Type == "page" && strings.TrimSpace(t.WebSocketDebuggerURL) != ""
isPageTargetMut(t) == TrimSpace(t.WebSocketDebuggerURL) # <<>>

isPageTarget(t) ==
  t.Type = "page" /\ TrimSpace(t.WebSocketDebuggerURL) # <<>>

\* for _, t := range targets: the index of the entry returned, 0 for none.
RECURSIVE firstPageTarget(_, _)
firstPageTarget(targets, k) ==
  IF k > Len(targets)
    THEN 0
    ELSE IF isPageTarget(targets[k])
           THEN k
           ELSE firstPageTarget(targets, k + 1)

\* What one GET of /json/list can come to: no response within the client's
\* timeout, a status other than 200, a body that is no JSON list of targets,
\* or a list.
ListResponses ==
  {[kind |-> k, targets |-> <<>>] : k \in {"error", "non200", "badJSON"}}
    \cup {[kind |-> "list", targets |-> ts] : ts \in TargetLists}

PollStart == [now |-> 0, polls |-> 0, log |-> <<>>, err |-> FALSE, url |-> <<>>]

PollInit ==
  /\ MainIdle
  /\ WsIdle
  /\ fnName \in {"waitForDevTools", "waitForFirstPageWSURL"}
  /\ fnArg \in {[timeout |-> t] : t \in 0..MaxTimeout}
  /\ fnOut = PollStart

\* One turn of waitForDevTools' loop: GET /json/version.
WdPoll ==
  /\ fnName = "waitForDevTools"
  /\ beforeDeadline(fnOut.now, fnArg.timeout)
  /\ \E status \in {"error", "200", "503"}, d \in 0..ClientTimeout :
       LET seen == [start |-> fnOut.now, at |-> fnOut.now + d,
                    status |-> status]
       IN  IF devToolsReady(status)
             THEN /\ fnOut' = [fnOut EXCEPT !.now = @ + d,
                                            !.polls = @ + 1,
                                            !.log = Append(@, seen)]
                  /\ fnName' = "waitForDevTools.ret"
             ELSE /\ fnOut' = [fnOut EXCEPT !.now = @ + d + SleepTicks,
                                            !.polls = @ + 1,
                                            !.log = Append(@, seen)]
                  /\ UNCHANGED fnName
  /\ UNCHANGED <<mainVars, wsVars, fnArg>>

\* The loop's condition fails: errors.New("Chrome DevTools 未就绪（超时）").
WdDeadline ==
  /\ fnName = "waitForDevTools"
  /\ ~beforeDeadline(fnOut.now, fnArg.timeout)
  /\ fnOut' = [fnOut EXCEPT !.err = TRUE]
  /\ fnName' = "waitForDevTools.ret"
  /\ UNCHANGED <<mainVars, wsVars, fnArg>>

\* One turn of waitForFirstPageWSURL's loop: GET /json/list.
WfPoll ==
  /\ fnName = "waitForFirstPageWSURL"
  /\ beforeDeadline(fnOut.now, fnArg.timeout)
  /\ \E resp \in ListResponses, d \in 0..ClientTimeout :
       LET k == firstPageTarget(resp.targets, 1)
       IN  IF resp.kind = "list" /\ k > 0
             THEN /\ fnOut' = [fnOut EXCEPT
                                 !.now = @ + d,
                                 !.polls = @ + 1,
                                 !.log = Append(@, resp),
                                 !.url = resp.targets[k].WebSocketDebuggerURL]
                  /\ fnName' = "waitForFirstPageWSURL.ret"
             ELSE /\ fnOut' = [fnOut EXCEPT !.now = @ + d + SleepTicks,
                                            !.polls = @ + 1,
                                            !.log = Append(@, resp)]
                  /\ UNCHANGED fnName
  /\ UNCHANGED <<mainVars, wsVars, fnArg>>

\* The loop's condition fails: errors.New("未找到可用的 DevTools page target").
WfDeadline ==
  /\ fnName = "waitForFirstPageWSURL"
  /\ ~beforeDeadline(fnOut.now, fnArg.timeout)
  /\ fnOut' = [fnOut EXCEPT !.err = TRUE]
  /\ fnName' = "waitForFirstPageWSURL.ret"
  /\ UNCHANGED <<mainVars, wsVars, fnArg>>

PollNext ==
  \/ WdPoll
  \/ WdDeadline
  \/ WfPoll
  \/ WfDeadline

\* The goroutine in the loop keeps running: a request ends within the
\* client's timeout and a sleep ends.
PollSpec == PollInit /\ [][PollNext]_vars /\ WF_vars(PollNext)

(***************************************************************************)
(* cdpClient.Call taken alone, with the error values it returns.  The      *)
(* connection answers the write of the request and each ReadJSONRaw with   *)
(* an error or, for a read, with a message; fnOut holds the call's         *)
(* position, the request frames it wrote, the messages it read and what it *)
(* returned.                                                               *)
(***************************************************************************)
NilError == [isNil |-> TRUE, text |-> <<>>]

ErrorOf(text) == [isNil |-> FALSE, text |-> text]

TransportErrors ==
  { ErrorOf(<<"E", "O", "F">>), ErrorOf(<<"c", "l", "o", "s", "e", "d">>) }

\* json.Unmarshal(envelope.Result, out) failed.
DecodeError == ErrorOf(<<"d", "e", "c", "o", "d", "e">>)

MethodText(method) ==
  IF method = "Network.enable"
    THEN <<"N", "e", "t", "w", "o", "r", "k", ".", "e", "n", "a", "b", "l",
        "e">>
    ELSE <<"N", "e", "t", "w", "o", "r", "k", ".", "g", "e", "t", "A", "l",
        "l", "C", "o", "o", "k", "i", "e", "s">>

ErrorMessages == { <<>>, <<"d", "e", "n", "i", "e", "d">> }

\* Variant: the method is left out of the error.
callErrorMut(method, message) == ErrorOf(message)

\* fmt.Errorf("%s: %s", method, envelope.Error.Message)
callError(method, message) ==
  ErrorOf(MethodText(method) \o <<":", " ">> \o message)

\* What one ReadJSONRaw can come to: an error, or a message with its
\* envelope and, when the envelope has an error field, the error's message.
ReadEvents ==
  {[kind |-> "error", err |-> e, message |-> <<>>,
    f |-> CHOOSE g \in WellFormedFrames : ~g.valid] : e \in TransportErrors}
  \cup
  UNION {{[kind |-> "message", err |-> NilError, f |-> g, message |-> m] :
            m \in (IF g.err THEN ErrorMessages ELSE {<<>>})} :
         g \in {h \in WellFormedFrames :
                  h.id <= 2 /\ h.cookies \in {<<>>, <<CkAuth>>}}}

CallStart ==
  [at |-> "write", writes |-> 0, log |-> <<>>, err |-> NilError,
   out |-> [set |-> FALSE, cookies |-> <<>>]]

CallInit ==
  /\ MainIdle
  /\ WsIdle
  /\ fnName = "Call"
  /\ fnArg \in {[method |-> m, id |-> n] :
                  m \in {"Network.enable", "Network.getAllCookies"},
                  n \in 1..2}
  /\ fnOut = CallStart

\* c.ws.WriteJSON(req): the one request frame of the call.
CallWrite ==
  /\ fnName = "Call"
  /\ fnOut.at = "write"
  /\ \E e \in TransportErrors \cup {NilError} :
       IF e.isNil
         THEN /\ fnOut' = [fnOut EXCEPT !.at = "read", !.writes = @ + 1]
              /\ UNCHANGED fnName
         ELSE /\ fnOut' = [fnOut EXCEPT !.at = "ret", !.writes = @ + 1,
                                        !.err = e]
              /\ fnName' = "Call.ret"
  /\ UNCHANGED <<mainVars, wsVars, fnArg>>

\* One turn of the loop of Call.
CallRead ==
  /\ fnName = "Call"
  /\ fnOut.at = "read"
  /\ Len(fnOut.log) < MaxFrames
  /\ \E ev \in ReadEvents :
       LET logged == [fnOut EXCEPT !.log = Append(@, ev)]
           return(o) == /\ fnOut' = [o EXCEPT !.at = "ret"]
                        /\ fnName' = "Call.ret"
       IN  IF ev.kind = "error"
             THEN return([logged EXCEPT !.err = ev.err])
             ELSE IF ~isAwaitedReply(ev.f, fnArg.id)
                    THEN /\ fnOut' = logged
                         /\ UNCHANGED fnName
                    ELSE IF ev.f.err
                           THEN return([logged EXCEPT
                                          !.err = callError(fnArg.method,
                                                            ev.message)])
                           ELSE IF callFails(ev.f, fnArg.method)
                                  THEN return([logged EXCEPT
                                                 !.err = DecodeError])
                                  ELSE IF hasOut(fnArg.method)
                                           /\ ev.f.result # "none"
                                         THEN return([logged EXCEPT
                                                !.out = [set |-> TRUE,
                                                         cookies |->
                                                           ev.f.cookies]])
                                         ELSE return(logged)
  /\ UNCHANGED <<mainVars, wsVars, fnArg>>

CallNext ==
  \/ CallWrite
  \/ CallRead

CallSpec == CallInit /\ [][CallNext]_vars

(***************************************************************************)
(* Two authentication attempts for one platform, run by two processes at   *)
(* the same time, each with one write of the persistent cache left to do:  *)
(* the copy of its temp jar over the cache, the refresh of the cache by    *)
(* the CDP path, or the filtering of the cache.  Nothing in the code       *)
(* orders the writes of one process with those of the other.  The cache    *)
(* is a file name bound to a file (ino) that holds lines; fnArg holds the  *)
(* write each process makes and fnOut the file and the processes' places.  *)
(***************************************************************************)
Procs == {1, 2}

\* The lines of the jar of each process: the two header lines and its
\* cookies; "c" is a cookie of a domain that is not the platform's.
JarLines(p) ==
  IF p = 1 THEN <<"H1", "H2", "a">> ELSE <<"H1", "H2", "b", "c">>

\* Variant: the cache is opened without being emptied.
createTruncatesMut(lines) == lines

\* os.Create(path): the file the name is bound to is emptied.
createTruncates(lines) == <<>>

\* A write of one line through a file opened by os.Create lands at the
\* writer's own offset; "0" stands for bytes no one has written.
writeAt(lines, k, l) ==
  [j \in 1..(IF k > Len(lines) THEN k ELSE Len(lines)) |->
     IF j = k THEN l ELSE IF j <= Len(lines) THEN lines[j] ELSE "0"]

\* filterCookieFileForPlatform keeps the header and the platform's cookies.
keptLines(lines) == SelectSeq(lines, LAMBDA l : l \notin {"c", "0"})

RaceStart ==
  [pos |-> <<"start", "start">>, off |-> <<0, 0>>, fd |-> <<0, 0>>,
   snap |-> <<<<>>, <<>>>>, log |-> <<>>]

RaceInit ==
  /\ MainIdle
  /\ WsIdle
  /\ fnName = "cacheRace"
  /\ fnArg \in {[ops |-> <<a, b>>] : a, b \in {"copy", "refresh", "filter"}}
  /\ fnOut \in {[file |-> f, pos |-> RaceStart.pos, off |-> RaceStart.off,
                 fd |-> RaceStart.fd, snap |-> RaceStart.snap,
                 log |-> RaceStart.log] :
                  f \in {[exists |-> FALSE, ino |-> 0, lines |-> <<>>],
                         [exists |-> TRUE, ino |-> 0,
                          lines |-> <<"H1", "H2", "p", "c">>]}}

RaceLanded(p, op) == Append(fnOut.log, [by |-> p, op |-> op])

\* copyFileAtomic(tmpCookieFile, cookieFile): the name is bound to a new
\* file that holds the jar.
RaceCopy(p) ==
  /\ fnArg.ops[p] = "copy"
  /\ fnOut.pos[p] = "start"
  /\ fnOut' = [fnOut EXCEPT
                 !.file = [exists |-> TRUE, ino |-> fnOut.file.ino + 1,
                           lines |-> JarLines(p)],
                 !.pos[p] = "done",
                 !.log = RaceLanded(p, "copy")]

\* writeNetscapeCookieFile(cookieCacheFile, ...): os.Create.
RaceCreate(p) ==
  /\ fnArg.ops[p] = "refresh"
  /\ fnOut.pos[p] = "start"
  /\ fnOut' = [fnOut EXCEPT
                 !.file = [exists |-> TRUE, ino |-> fnOut.file.ino,
                           lines |-> createTruncates(fnOut.file.lines)],
                 !.fd[p] = fnOut.file.ino,
                 !.off[p] = 0,
                 !.pos[p] = "write",
                 !.log = RaceLanded(p, "create")]

\* writeNetscapeCookieFile: one fmt.Fprintln / fmt.Fprintf to the file it
\* opened; after the last one the file is closed.  When the name has been
\* bound to another file since, the line goes to a file no one reads.
RaceWrite(p) ==
  /\ fnOut.pos[p] = "write"
  /\ LET k == fnOut.off[p] + 1
     IN  fnOut' = [fnOut EXCEPT
                     !.file.lines = IF fnOut.fd[p] = fnOut.file.ino
                                      THEN writeAt(@, k, JarLines(p)[k])
                                      ELSE @,
                     !.off[p] = k,
                     !.pos[p] = IF k = Len(JarLines(p)) THEN "done"
                                                         ELSE "write",
                     !.log = RaceLanded(p, "write")]

\* if fileExists(cookieFile) { filterCookieFileForPlatform(...) }: the file
\* is read.
RaceFilterRead(p) ==
  /\ fnArg.ops[p] = "filter"
  /\ fnOut.pos[p] = "start"
  /\ fnOut' = [fnOut EXCEPT
                 !.snap[p] = fnOut.file.lines,
                 !.pos[p] = IF fnOut.file.exists THEN "filter" ELSE "done"]

\* filterCookieFileForPlatform: the lines kept are written back.
RaceFilterWrite(p) ==
  /\ fnOut.pos[p] = "filter"
  /\ fnOut' = [fnOut EXCEPT
                 !.file.exists = TRUE,
                 !.file.lines = keptLines(fnOut.snap[p]),
                 !.pos[p] = "done",
                 !.log = RaceLanded(p, "filter")]

\* The next step of process p.
RaceStep(p) ==
  /\ fnName = "cacheRace"
  /\ \/ RaceCopy(p)
     \/ RaceCreate(p)
     \/ RaceWrite(p)
     \/ RaceFilterRead(p)
     \/ RaceFilterWrite(p)
  /\ UNCHANGED <<mainVars, wsVars, fnName, fnArg>>

RaceNext == \E p \in Procs : RaceStep(p)

RaceSpec == RaceInit /\ [][RaceNext]_vars

(***************************************************************************)
(* Properties.                                                             *)
(***************************************************************************)
\* C1: cookies of a browser source or of the CDP fallback replace the
\* persistent cache only in a step taken after the authenticated check of
\* that attempt returned true, the new content is content the check accepts,
\* and no step after the cached-file attempt turns a cache that looks
\* authenticated into one that does not.
C1_PromotionOnlyAfterCheck ==
  [][/\ (/\ cache'.origin \in {"jar", "cdp"}
         /\ <<cache'.origin, cache'.by>> # <<cache.origin, cache.by>>)
        => /\ checkRes = "true"
           /\ pc \in {"srcCopy", "cdpRefresh"}
           /\ cache'.by = Len(attempts)
           /\ looksLikeLoggedIn(cache'.cookies, platform)
     /\ (/\ mode = "get"
         /\ pc # "start"
         /\ looksLikeLoggedIn(cache.cookies, platform))
        => looksLikeLoggedIn(cache'.cookies, platform)
     /\ (/\ checkRes # "true"
         /\ pc \in {"srcCheck", "srcCopy", "srcCleanup", "cdpCheck",
                    "cdpRefresh"})
        => <<cache'.origin, cache'.by>> = <<cache.origin, cache.by>>]_vars

\* C1 witness: the jar of a source attempt passed the check and has been
\* copied over the cache.
C1_Witness ==
  /\ pc = "srcCleanup"
  /\ checkRes = "true"
  /\ cache.origin = "jar"
  /\ cache.by = Len(attempts)

\* C2: when the attempt of the source chrome ended retryable, the attempt
\* started next is the CDP attempt of that source, and the run does not end
\* before it; when the CDP attempt ended retryable and a further source is
\* configured, the attempt started next is that source, and the run does not
\* end before it.
C2_CdpBeforeNextSource ==
  [][(mode = "get" /\ attempts # <<>>) =>
       LET last == attempts[Len(attempts)]
           retry == shouldTryNextAuth(attemptCode)
           chromeRetry == /\ last.kind = "source"
                          /\ sources[last.idx] = "chrome"
                          /\ retry
           cdpRetry == /\ last.kind = "cdp"
                       /\ retry
                       /\ last.idx < Len(sources)
       IN  /\ (chromeRetry /\ attempts' # attempts)
                => attempts' = Append(attempts, Attempt("cdp", last.idx))
           /\ (cdpRetry /\ attempts' # attempts)
                => attempts' =
                     Append(attempts, Attempt("source", last.idx + 1))
           /\ (chromeRetry \/ cdpRetry)
                => (attempts' = attempts => result' = Running)]_vars

\* C2 witness: chrome, then its CDP attempt, then the next source.
C2_Witness ==
  /\ Len(attempts) >= 3
  /\ \E k \in 1..(Len(attempts) - 2) :
       /\ attempts[k].kind = "source"
       /\ sources[attempts[k].idx] = "chrome"
       /\ attempts[k + 1] = Attempt("cdp", attempts[k].idx)
       /\ attempts[k + 2] = Attempt("source", attempts[k].idx + 1)

\* C3 (as stated): once an attempt has ended with a code that is neither
\* success nor retryable, no further attempt is started and the run returns
\* that code.
C3_TerminalCodeSurfaced ==
  [][(/\ mode = "get"
      /\ attemptCode \notin {Running, exitOK}
      /\ ~shouldTryNextAuth(attemptCode))
     => /\ attempts' = attempts
        /\ (result' # Running => result' = attemptCode)]_vars

\* C4 (as stated): after a CDP attempt that failed with BrowserNotFound or
\* ProfileDirectoryError no further source is attempted.
C4_BrowserNotFoundTerminal ==
  [][(/\ mode = "get"
      /\ cdpError \in {"BrowserNotFound", "ProfileDirectoryError"})
     => attempts' = attempts]_vars

\* C4 (amended): a CDP attempt that failed with BrowserNotFound or
\* ProfileDirectoryError returns exitCookieProblem, which the orchestrator
\* takes over as the code of the chrome attempt and treats as retryable: it
\* goes on to the next configured source when there is one, and otherwise
\* the run returns exitAuthRequired.
C4_BrowserNotFoundRetryable ==
  [][(/\ mode = "get"
      /\ cdpError \in {"BrowserNotFound", "ProfileDirectoryError"})
     => /\ pc = "cdpRet"
           => /\ cdpCode = exitCookieProblem
              /\ code' = exitCookieProblem
              /\ pc' = "srcNext"
              /\ result' = Running
        /\ pc = "srcNext"
           => IF i < Len(sources)
                THEN /\ pc' = "srcBegin"
                     /\ i' = i + 1
                     /\ result' = Running
                ELSE result' = exitAuthRequired]_vars

\* C4 witness: the second source is about to run after the CDP attempt of
\* the first failed because no Chrome executable was found.
C4_Witness ==
  /\ pc = "srcRun"
  /\ i = 2
  /\ cdpError = "BrowserNotFound"
  /\ attempts[Len(attempts)] = Attempt("cdp", 1)
  /\ attemptCode = exitCookieProblem

\* C5: a run of runWithAuthFallback in which every attempt made ended with a
\* retryable code, or in which no attempt was made, returns
\* exitAuthRequired.
C5_ExhaustedIsAuthRequired ==
  (mode = "get" /\ result # Running /\ onlyRetryable)
    => result = exitAuthRequired

\* C5 witness: the run returned after a cached-file attempt and a source
\* attempt, the last of which ended with exitCookieProblem.
C5_Witness ==
  /\ mode = "get"
  /\ result = exitAuthRequired
  /\ onlyRetryable
  /\ Len(attempts) >= 2
  /\ attemptCode = exitCookieProblem

\* C6: a run that finds a persistent cache makes the cached-file attempt as
\* its first step, with no attempt made and no browser process started
\* before it; when that attempt succeeds the run has ended with exitOK, no
\* browser process was started, and no further attempt is made.
C6_CachedFileFirst ==
  /\ [](/\ (mode = "get" /\ pc = "start")
           => (attempts = <<>> /\ proc = "none")
        /\ (/\ mode = "get"
            /\ attempts # <<>>
            /\ attempts[1] = Attempt("cache", 0)
            /\ Len(attempts) = 1
            /\ attemptCode = exitOK)
           => (result = exitOK /\ pc = "done" /\ proc = "none"))
  /\ [][/\ (mode = "get" /\ pc = "start" /\ cache.exists)
           => (attempts' = <<Attempt("cache", 0)>> /\ proc' = "none")
        /\ (mode = "get" /\ result = exitOK)
           => (attempts' = attempts /\ proc' = proc)]_vars

\* C6 witness: the cached-file attempt on a cache left by an earlier run
\* succeeded and the run has returned.
C6_Witness ==
  /\ mode = "get"
  /\ attempts = <<Attempt("cache", 0)>>
  /\ attemptCode = exitOK
  /\ result = exitOK
  /\ cache.exists

\* C7: once exportCookiesFromChromeCDP or chromeAuthViaCDP has returned, a
\* browser process the attempt started is stopped and its stop handle was
\* invoked exactly once; the handle is never invoked without a process and
\* never twice.
C7_ProcessStoppedOnce ==
  /\ (pc \in {"cdpCheck", "cdpRefresh", "cdpRun", "cdpRet", "authSave",
              "done"}
      => /\ proc # "running"
         /\ (proc = "stopped" <=> stopCalls = 1)
         /\ ws # "open")
  /\ stopCalls <= 1
  /\ (stopCalls = 1 => proc = "stopped")
  /\ (proc = "none" => stopCalls = 0)

\* C7 witness: the readiness poll inside startChrome timed out, so the
\* caller got no stop handle, and the process is stopped.
C7_Witness ==
  /\ pc = "cdpRet"
  /\ steps = <<>>
  /\ proc = "stopped"
  /\ stopCalls = 1
  /\ cdpCode = exitCookieProblem

\* C8: the temp jar of a source attempt exists only between its creation
\* and tmpCleanup(), and the temp file of the CDP fallback exists only
\* between os.CreateTemp and the end of tryDownloadWithChromeCDP: neither
\* exists once its attempt has ended.
C8_TempJarsRemoved ==
  /\ jarFile.exists
     => pc \in {"srcRun", "srcFilter", "srcCheck", "srcCopy", "srcCleanup"}
  /\ cdpFile.exists
     => pc \in {"writeTemp", "cdpCheck", "cdpRefresh", "cdpRun"}
  /\ tmpCookieFile /\ pc \in {"findChrome", "cdpRet", "srcNext", "done"}
     => jarFile = RemovedFile

\* C8 witness: the CDP fallback has returned after filling its temp file
\* failed; that file and the temp jar of the chrome attempt before it were
\* created and are removed.
C8_Witness ==
  /\ pc = "cdpRet"
  /\ jarFile = RemovedFile
  /\ cdpFile = RemovedFile
  /\ steps # <<>>
  /\ steps[Len(steps)] = "cookies"
  /\ cdpCode = exitCookieProblem

\* C9: every frame a Call took as its reply is valid JSON and carries an id
\* equal to the id of the request that Call sent; the ids of the requests
\* of a session are 1, 2, ... in the order sent, and the Call that is
\* reading awaits the id of the request sent last.
C9_ReplyMatchesRequestId ==
  /\ \A k \in DOMAIN taken :
       /\ taken[k].valid
       /\ taken[k].hasId
       /\ taken[k].id = taken[k].call
       /\ taken[k].call = sent[k].id
  /\ \A k \in DOMAIN sent : sent[k].id = k
  /\ Len(taken) <= Len(sent)
  /\ pc = "callRead" => (sent # <<>> /\ callId = sent[Len(sent)].id)
  /\ ws = "open" => nextID >= 1

\* C9 witness: both calls of a session returned, the second after skipping
\* a frame.
C9_Witness ==
  /\ Len(taken) = 2
  /\ taken[2].call = 2
  /\ framesRead >= 1

\* C10: when the Network.getAllCookies request has been sent, the attempt
\* has passed, in this order, a readiness probe answered 200, the discovery
\* of a page target, the WebSocket handshake and a Network.enable call
\* whose matching reply carried no error; and Network.enable was the only
\* request sent before.
C10_CookieRequestOrder ==
  (\E k \in DOMAIN sent : sent[k].method = "Network.getAllCookies")
    => /\ \E a, b, c, d \in DOMAIN steps :
            /\ a < b /\ b < c /\ c < d
            /\ steps[a] = "ready"
            /\ steps[b] = "target"
            /\ steps[c] = "handshake"
            /\ steps[d] = "enable"
       /\ Len(sent) = 2
       /\ sent[1].method = "Network.enable"
       /\ sent[2].method = "Network.getAllCookies"
       /\ taken # <<>>
       /\ taken[1].call = sent[1].id
       /\ ~taken[1].err

\* C10 witness: the cookie request has been sent and awaits its reply.
C10_Witness ==
  /\ pc = "callRead"
  /\ callMethod = "Network.getAllCookies"
  /\ Len(sent) = 2
  /\ sent[2].method = "Network.getAllCookies"

\* C11: every frame the client wrote, a text request or a pong, of every
\* length class, has the mask bit set, holds the length of its payload in
\* the length field of its class, carries a 4-byte mask key after it, and
\* then the payload XORed with the repeating key.
C11_ClientFramesMasked ==
  \A j \in DOMAIN wsLog :
    (wsLog[j].dir = "write" /\ wsLog[j].outcome = "ok") =>
      LET e == wsLog[j]
          bs == e.bytes
          n == Len(e.payload)
          ext == IF n <= 125 THEN 0 ELSE IF n <= 65535 THEN 2 ELSE 8
          key == SubSeq(bs, 2 + ext + 1, 2 + ext + 4)
      IN  /\ Len(bs) = 2 + ext + 4 + n
          /\ bs[1] = 128 + e.opcode
          /\ bs[2] >= 128
          /\ bs[2] - 128 =
               (IF ext = 0 THEN n ELSE IF ext = 2 THEN 126 ELSE 127)
          /\ ext > 0 => Uint(SubSeq(bs, 3, 2 + ext)) = n
          /\ \A k \in 1..n :
               Xor(bs[2 + ext + 4 + k], key[((k - 1) % 4) + 1]) =
                 e.payload[k]

\* C11 witness: a pong with the 126-byte payload of a ping was written, in
\* the two-byte length class.
C11_Witness ==
  /\ Len(wsLog) >= 2
  /\ wsLog[2].dir = "write"
  /\ wsLog[2].outcome = "ok"
  /\ wsLog[2].opcode = OpPong
  /\ Len(wsLog[2].payload) = 126
  /\ wsLog[2].bytes[2] = 128 + 126

\* The frames readFrame returned, in order.
readsOf(log) == SelectSeq(log, LAMBDA e : e.dir = "read")

\* Length of the extended length field of a server frame.
classExt(d) == IF d.class = 7 THEN 0 ELSE IF d.class = 16 THEN 2 ELSE 8

\* C12: readFrame decides from the frame's own mask bit.  The k-th frame it
\* returns has the opcode and exactly the payload of the k-th frame the
\* server sent, whether that frame was masked or not; for an unmasked frame
\* it consumed the header, the extended length and the payload and no key
\* bytes, for a masked frame four key bytes more.
C12_ReadFrameUnmasksByMaskBit ==
  wsPhase \in {"read", "readDone"} =>
    LET rs == readsOf(wsLog)
    IN  /\ Len(rs) <= Len(wsArg.frames)
        /\ \A k \in DOMAIN rs :
             LET d == wsArg.frames[k]
             IN  /\ rs[k].opcode = d.opcode
                 /\ rs[k].payload = d.payload
                 /\ rs[k].masked = d.masked
                 /\ rs[k].used = 2 + classExt(d) + Len(d.payload)
                                   + (IF d.masked THEN 4 ELSE 0)

\* C12 witness: a masked frame was read and skipped, and then an unmasked
\* text frame with a two-byte length field was read.
C12_Witness ==
  /\ wsPhase = "readDone"
  /\ Len(readsOf(wsLog)) = 2
  /\ wsArg.frames[1].masked
  /\ ~wsArg.frames[2].masked
  /\ readsOf(wsLog)[1].masked
  /\ readsOf(wsLog)[1].used = 7
  /\ ~readsOf(wsLog)[2].masked
  /\ readsOf(wsLog)[2].payload = <<123, 125>>
  /\ readsOf(wsLog)[2].used = 6

\* Position of the first text or close frame of fs, 0 when there is none.
firstEnding(fs) ==
  IF \E k \in DOMAIN fs : fs[k].opcode \in {OpText, OpClose}
    THEN CHOOSE k \in DOMAIN fs :
           /\ fs[k].opcode \in {OpText, OpClose}
           /\ \A j \in 1..(k - 1) : fs[j].opcode \notin {OpText, OpClose}
    ELSE 0

\* C19: on any stream of frames, ReadJSONRaw returns the payload of the first
\* text frame when no close frame precedes it, and the end-of-stream error
\* when a close frame comes first; it reads no frame after the one that ended
\* it.  Every ping read is followed, before the next frame is read, by
\* exactly one writeFrame of a pong with the ping's payload (whose error is
\* ignored), and nothing else is ever written: a pong or any other frame is
\* consumed without a reply.
C19_ReadLoopOrder ==
  wsPhase \in {"read", "readDone"} =>
    LET fs == wsArg.frames
        rs == readsOf(wsLog)
        e == firstEnding(fs)
    IN  /\ \A j \in DOMAIN wsLog :
             /\ (wsLog[j].dir = "read" /\ wsLog[j].opcode = OpPing) =>
                  /\ j + 1 <= Len(wsLog)
                  /\ wsLog[j + 1].dir = "write"
             /\ wsLog[j].dir = "write" =>
                  /\ j > 1
                  /\ wsLog[j - 1].dir = "read"
                  /\ wsLog[j - 1].opcode = OpPing
                  /\ wsLog[j].opcode = OpPong
                  /\ wsLog[j].payload = wsLog[j - 1].payload
                  /\ wsLog[j].outcome = "ok" =>
                       readFrame(wsLog[j].bytes).payload = wsLog[j - 1].payload
        /\ wsPhase = "read" =>
             /\ wsRet.kind = "none"
             /\ \A k \in DOMAIN rs : rs[k].opcode \notin {OpText, OpClose}
        /\ wsPhase = "readDone" =>
             IF e = 0
               THEN wsRet = WsRetOf("error", <<>>) /\ Len(rs) = Len(fs)
               ELSE /\ Len(rs) = e
                    /\ wsRet = (IF fs[e].opcode = OpText
                                  THEN WsRetOf("payload", fs[e].payload)
                                  ELSE WsRetOf("eof", <<>>))

\* C19 witness: a ping with a 126-byte payload was answered by a pong, and
\* the text frame after it was returned.
C19_Witness ==
  /\ wsPhase = "readDone"
  /\ Len(wsLog) = 3
  /\ wsLog[1].dir = "read" /\ wsLog[1].opcode = OpPing
  /\ Len(wsLog[1].payload) = 126
  /\ wsLog[2].dir = "write" /\ wsLog[2].outcome = "ok"
  /\ wsLog[3].dir = "read" /\ wsLog[3].opcode = OpText
  /\ wsRet = WsRetOf("payload", <<123, 125>>)

\* C13: wsDial returns a connection only for the scheme ws and a well-formed
\* response whose status is 101: any other status, and any malformed or
\* truncated status line or header block, give an error.
C13_DialOnly101 ==
  (wsPhase = "dialed" /\ wsRet.kind = "conn") =>
    /\ wsArg.scheme = "ws"
    /\ wsArg.status.code = 101
    /\ wsArg.status.wellFormed
    /\ wsArg.headers.wellFormed

\* The cookies writeNetscapeCookieFile keeps, in order.
keptCookies(cks, f) ==
  SelectSeq(cks, LAMBDA c : passesFilter(f, c.domain)
                            /\ TrimSpace(c.domain) # <<>>)

IsDigits(str) ==
  /\ str # <<>>
  /\ \A k \in DOMAIN str : \E d \in DOMAIN Digits : Digits[d] = str[k]

\* The number a string of digits denotes.
RECURSIVE DigitsValue(_)
DigitsValue(str) ==
  IF str = <<>> THEN 0
  ELSE 10 * DigitsValue(SubSeq(str, 1, Len(str) - 1))
       + (CHOOSE d \in 0..9 : Digits[d + 1] = str[Len(str)])

\* C14: in the file writeNetscapeCookieFile wrote, the expires column (the
\* fifth) of the record of a cookie whose Expires is <= 0 is the empty
\* string, never "0" and never a negative number, and that of a cookie with
\* a positive Expires is its whole epoch seconds in decimal digits.
C14_SessionExpiresEmpty ==
  (fnName = "writeNetscapeCookieFile.ret" /\ ~fnOut.err) =>
    LET kept == keptCookies(fnArg.cookies, fnArg.filter)
        recs == fileRecords(fnOut.text)
    IN  /\ Len(recs) = Len(kept)
        /\ \A k \in DOMAIN kept :
             LET x == kept[k].expires
                 col == recs[k][5]
             IN  /\ Len(recs[k]) = 7
                 /\ x.num <= 0 => col = <<>>
                 /\ x.num > 0 =>
                      /\ IsDigits(col)
                      /\ DigitsValue(col) * x.den <= x.num
                      /\ x.num - DigitsValue(col) * x.den < x.den

\* C14 witness: a file holds the record of a session cookie with an empty
\* expires column and that of a cookie expiring at 1000000000.5 with the
\* column 1000000000.
C14_Witness ==
  /\ fnName = "writeNetscapeCookieFile.ret"
  /\ ~fnOut.err
  /\ Len(fileRecords(fnOut.text)) = 2
  /\ fnArg.cookies[1].expires = Frac(-1, 1)
  /\ fileRecords(fnOut.text)[1][5] = <<>>
  /\ fnArg.cookies[2].expires = Frac(2000000001, 2)
  /\ fileRecords(fnOut.text)[2][5] = FormatInt(1000000000)

\* Reading a cookie file back: one cookie for each record of seven columns
\* domain, flag, path, secure, expires, name, value.
parseNetscapeCookieFile(text) ==
  LET recs == SelectSeq(fileRecords(text), LAMBDA r : Len(r) = 7)
  IN  [k \in DOMAIN recs |->
         [name |-> recs[k][6], value |-> recs[k][7], domain |-> recs[k][1],
          path |-> recs[k][3], secure |-> (recs[k][4] = BoolColumn(TRUE))]]

\* The fields of the cookies cks that a file keeps besides the expiry.
cookieFields(cks) ==
  [k \in DOMAIN cks |->
     [name |-> cks[k].name, value |-> cks[k].value, domain |-> cks[k].domain,
      path |-> cks[k].path, secure |-> cks[k].secure]]

UpperChar(c) ==
  IF \E k \in DOMAIN LowerLetters : LowerLetters[k] = c
    THEN UpperLetters[CHOOSE k \in DOMAIN LowerLetters : LowerLetters[k] = c]
    ELSE c

ToUpper(str) == [k \in DOMAIN str |-> UpperChar(str[k])]

\* The platform p with its suffixes in capitals.
upperSuffixes(p) ==
  [p EXCEPT !.CookieDomainSuffixes =
              [k \in DOMAIN p.CookieDomainSuffixes |->
                 ToUpper(p.CookieDomainSuffixes[k])]]

\* dd is the suffix sfx, or ends with it after a label boundary.
endsAtLabel(dd, sfx) ==
  \/ dd = sfx
  \/ \E k \in DOMAIN dd :
       dd[k] = "." /\ SubSeq(dd, k + 1, Len(dd)) = sfx

\* d with one leading dot added when it has none, removed when it has one.
dotToggled(d) == IF HasPrefix(d, <<".">>) THEN Tail(d) ELSE <<".">> \o d

C17_LoggedInIff ==
  fnName = "looksLikeLoggedIn.ret" =>
    LET cs == fnArg.cookies
        names == {fnArg.p.AuthCookieNames[w] :
                    w \in DOMAIN fnArg.p.AuthCookieNames}
    IN  fnOut = (\E k \in DOMAIN cs :
                   /\ AllowsCookieDomain(fnArg.p, cs[k].domain)
                   /\ cs[k].name \in names
                   /\ cs[k].value # "")

\* C17 witness: for bilibili, the auth cookie with an empty value and the
\* auth cookie on a foreign domain together do not look logged in.
C17_Witness ==
  /\ fnName = "looksLikeLoggedIn.ret"
  /\ fnArg.p = bilibiliPlatformRec
  /\ fnArg.cookies = <<CkAuthEmpty, CkAuthForeign>>
  /\ fnOut = FALSE

\* The priority order of the sources.
priorityOrder == <<BrChrome, BrFirefox, BrChromium, BrEdge>>

\* C18: with the override MINGEST_BROWSER set, buildAuthSources yields the
\* one named browser and nothing else.  Without it, with exactly one
\* browser detected the list is that browser alone; with none detected it
\* is chrome, firefox, chromium, edge; with two or more it is the detected
\* browsers, each once, in that same relative order.
C18_SourcePriorityOrder ==
  fnName = "buildAuthSources.ret" =>
    LET v == TrimSpace(fnArg.env)
        found == IF fnArg.known THEN fnArg.dirs ELSE {}
        values == [k \in DOMAIN fnOut |-> fnOut[k].Value]
    IN  /\ \A k \in DOMAIN fnOut : fnOut[k].Kind = "browser"
        /\ \A j, k \in DOMAIN values : values[j] = values[k] => j = k
        /\ IF v # <<>>
             THEN values = <<ToLower(v)>>
             ELSE IF Cardinality(found) = 1
               THEN values = <<CHOOSE b \in found : TRUE>>
               ELSE values = SelectSeq(priorityOrder,
                                       LAMBDA b : b \in found \/ found = {})

\* C18 witness: with no override, chromium, edge and firefox were detected
\* (in that order) and the sources firefox, chromium, edge were built.
C18_Witness ==
  /\ fnName = "buildAuthSources.ret"
  /\ TrimSpace(fnArg.env) = <<>>
  /\ detectBrowsers(fnArg.dirs, fnArg.known)
       = <<BrChromium, BrEdge, BrFirefox>>
  /\ fnOut = <<authSource(BrFirefox), authSource(BrChromium),
               authSource(BrEdge)>>

\* C20: Call has no deadline.  Once its request is written it stops
\* reading only when a message with the awaited id was taken, whatever it
\* holds, or when ReadJSONRaw failed (a transport error or a close frame);
\* a message that is not the awaited reply leaves it reading, with nothing
\* returned and the connection open.
C20_CallHasNoDeadline ==
  [][pc = "callRead" =>
       IF pc' = "callRead"
         THEN /\ taken' = taken
              /\ steps' = steps
              /\ ws' = ws
              /\ callId' = callId
         ELSE \/ /\ taken' = taken
                 /\ steps' = Append(steps, "readError")
              \/ /\ Len(taken') = Len(taken) + 1
                 /\ SubSeq(taken', 1, Len(taken)) = taken
                 /\ taken'[Len(taken')].call = callId
                 /\ taken'[Len(taken')].valid
                 /\ taken'[Len(taken')].hasId
                 /\ taken'[Len(taken')].id = callId
                 /\ steps' # Append(steps, "readError")]_vars

\* C20 witness: a Call has read as many unrelated messages as the bound
\* allows and is still reading, its connection open.
C20_Witness ==
  /\ pc = "callRead"
  /\ framesRead = MaxFrames
  /\ ws = "open"
  /\ Len(taken) < Len(sent)

PollReturned ==
  fnName \in {"waitForDevTools.ret", "waitForFirstPageWSURL.ret"}

InPollLoop == fnName \in {"waitForDevTools", "waitForFirstPageWSURL"}

\* Every poll but the last was followed by a sleep, so the polls are bounded
\* by the timeout.
pollsBounded ==
  (InPollLoop \/ PollReturned) =>
    \/ fnOut.polls = 0
    \/ (fnOut.polls - 1) * SleepTicks < fnArg.timeout

errorOnlyAtDeadline ==
  (PollReturned /\ fnOut.err) => ~(fnOut.now < fnArg.timeout)

\* C21 as stated: both loops return after finitely many polls for every
\* timeout, on expiry with an error, and waitForDevTools returns success only
\* if a 200 response was observed before the deadline.
C21_ReadyObservedBeforeDeadline ==
  /\ <>PollReturned
  /\ [](pollsBounded /\ errorOnlyAtDeadline)
  /\ []((fnName = "waitForDevTools.ret" /\ ~fnOut.err) =>
         /\ fnOut.log # <<>>
         /\ fnOut.log[Len(fnOut.log)].status = "200"
         /\ fnOut.log[Len(fnOut.log)].at < fnArg.timeout)

\* C21, amended: both loops return after finitely many polls for every
\* timeout, on expiry with an error, and waitForDevTools returns success only
\* if its last request was begun before the deadline and was answered 200;
\* the answer itself may come after the deadline, within the client's timeout.
C21_PollLoopsReturn ==
  /\ <>PollReturned
  /\ [](pollsBounded /\ errorOnlyAtDeadline)
  /\ []((fnName = "waitForDevTools.ret" /\ ~fnOut.err) =>
         /\ fnOut.log # <<>>
         /\ fnOut.log[Len(fnOut.log)].status = "200"
         /\ fnOut.log[Len(fnOut.log)].start < fnArg.timeout
         /\ fnOut.log[Len(fnOut.log)].at
              <= fnOut.log[Len(fnOut.log)].start + ClientTimeout)

\* waitForDevTools returned success on its second poll, answered 200 after
\* the deadline.
C21_Witness ==
  /\ fnName = "waitForDevTools.ret"
  /\ ~fnOut.err
  /\ fnOut.polls = 2
  /\ fnOut.log[1].status = "error"
  /\ fnOut.log[2].status = "200"
  /\ fnOut.log[2].at > fnArg.timeout

\* The index of the first entry of a list that satisfies ok, 0 for none.
firstIndex(targets, ok(_)) ==
  LET hits == {k \in 1..Len(targets) : ok(targets[k])}
  IN  IF hits = {} THEN 0 ELSE CHOOSE k \in hits : \A h \in hits : k <= h

pageWithURL(t) == t.Type = "page" /\ t.WebSocketDebuggerURL # <<>>

pageWithNonBlankURL(t) ==
  /\ t.Type = "page"
  /\ \E k \in 1..Len(t.WebSocketDebuggerURL) :
       t.WebSocketDebuggerURL[k] \notin {" ", "\t", "\n", "\r"}

\* waitForFirstPageWSURL returned what the first parsed list holding an entry
\* that satisfies ok gives: the debugger URL of the first such entry of that
\* list, or the discovery error when no parsed list held one.
firstEligibleReturned(ok(_)) ==
  fnName = "waitForFirstPageWSURL.ret" =>
    LET lists == SelectSeq(fnOut.log, LAMBDA r : r.kind = "list")
        found == {n \in 1..Len(lists) : firstIndex(lists[n].targets, ok) > 0}
    IN  IF found = {}
          THEN fnOut.err /\ fnOut.url = <<>>
          ELSE LET n == CHOOSE m \in found : \A h \in found : m <= h
                   e == lists[n].targets[firstIndex(lists[n].targets, ok)]
               IN  /\ ~fnOut.err
                   /\ n = Len(lists)
                   /\ fnOut.log[Len(fnOut.log)] = lists[n]
                   /\ fnOut.url = e.WebSocketDebuggerURL
                   /\ ok(e)

\* C22 as stated: waitForFirstPageWSURL returns the debugger URL of the first
\* entry, in list order, with type "page" and a non-empty debugger URL, of the
\* first parsed list that holds such an entry, and the discovery error when
\* no parsed list held one before the deadline.
C22_FirstPageNonEmptyURL == firstEligibleReturned(pageWithURL)

\* C22, amended: the same with "non-empty" read as "not empty once the white
\* space around it is removed"; the URL is returned as the browser sent it.
C22_FirstPageNonBlankURL == firstEligibleReturned(pageWithNonBlankURL)

\* The first list held a service worker and a page with a blank URL and was
\* passed over; the second held a page without URL, then a page with one.
C22_Witness ==
  /\ fnName = "waitForFirstPageWSURL.ret"
  /\ Len(fnOut.log) = 2
  /\ fnOut.log[1].targets = <<WorkerA, PageBlankURL>>
  /\ fnOut.log[2].targets = <<PageNoURL, PageB>>
  /\ fnOut.url = WsUrlB

\* tryDownloadWithChromeCDP returns in this step.
cdpReturns == mode = "get" /\ pc # "cdpRet" /\ pc' = "cdpRet"

\* The positions inside exportCookiesFromChromeCDP.
ExportPositions ==
  {"scPort", "scMkdir", "scStart", "scWait", "findTarget", "wsDial",
   "callSend", "callRead", "mkTemp", "writeTemp"}

\* C23 as stated: tryDownloadWithChromeCDP returns exitAuthRequired exactly
\* when the extraction succeeded and the cookies do not look authenticated,
\* then without running the downloader or writing the cache; an error during
\* the extraction returns exitCookieProblem.
C23_AuthRequiredExactly ==
  [][cdpReturns =>
       /\ (cdpCode' = exitAuthRequired)
            <=> (pc = "cdpCheck" /\ ~looksLikeLoggedIn(cookies, platform))
       /\ cdpCode' = exitAuthRequired => cache' = cache
       /\ pc \in ExportPositions => cdpCode' = exitCookieProblem]_vars

\* C23, amended: when the extraction succeeded and the cookies do not look
\* authenticated, tryDownloadWithChromeCDP returns exitAuthRequired without
\* running the downloader or writing the cache; it returns exitAuthRequired
\* otherwise only as the code of the downloader it ran with cookies that look
\* authenticated; an error during the extraction returns exitCookieProblem.
C23_AuthRequiredWhenNotLoggedIn ==
  [][/\ cdpReturns =>
          /\ pc = "cdpCheck" =>
               /\ ~looksLikeLoggedIn(cookies, platform)
               /\ cdpCode' = exitAuthRequired
               /\ cache' = cache
          /\ cdpCode' = exitAuthRequired => pc \in {"cdpCheck", "cdpRun"}
          /\ pc = "cdpRun" => looksLikeLoggedIn(cookies, platform)
          /\ pc \in ExportPositions \cup {"findChrome", "profileDir"}
               => cdpCode' = exitCookieProblem
     /\ (mode = "get" /\ pc = "cdpCheck" /\ pc' # "cdpRet")
          => (looksLikeLoggedIn(cookies, platform) /\ pc' = "cdpRefresh")
     /\ (pc # "cdpRun" /\ pc' = "cdpRun") => pc = "cdpRefresh"]_vars

\* The cookies looked authenticated, the cache was refreshed from them, and
\* the downloader ended with exitAuthRequired.
C23_Witness ==
  /\ pc = "cdpRet"
  /\ cdpCode = exitAuthRequired
  /\ checkRes = "true"
  /\ cache.origin = "cdp"

\* C24: when the awaited reply has an error field, Call returns the error
\* "<method>: <message>" and leaves the output as it was even if the reply
\* carries a result; an error of the write or of a read is returned as it
\* is, then too with the output untouched; and in every case the call wrote
\* one request frame only, the replies before the last being passed over.
C24_CallErrorsNoResend ==
  fnName = "Call.ret" =>
    /\ fnOut.writes = 1
    /\ \A k \in 1..(Len(fnOut.log) - 1) :
         /\ fnOut.log[k].kind = "message"
         /\ ~isAwaitedReply(fnOut.log[k].f, fnArg.id)
    /\ IF fnOut.log = <<>>
         THEN fnOut.err \in TransportErrors /\ ~fnOut.out.set
         ELSE LET last == fnOut.log[Len(fnOut.log)]
              IN  /\ last.kind = "error" =>
                       (fnOut.err = last.err /\ ~fnOut.out.set)
                  /\ (last.kind = "message" /\ last.f.err) =>
                       /\ envelopeID(last.f) = fnArg.id
                       /\ ~fnOut.err.isNil
                       /\ fnOut.err.text
                            = MethodText(fnArg.method) \o <<":", " ">>
                                \o last.message
                       /\ ~fnOut.out.set

\* After one message for another call, the awaited reply carried an error
\* and a cookie list: the error names the method, the list was not decoded.
C24_Witness ==
  /\ fnName = "Call.ret"
  /\ fnArg.method = "Network.getAllCookies"
  /\ Len(fnOut.log) = 2
  /\ fnOut.log[2].f.err
  /\ fnOut.log[2].f.result = "ok"
  /\ fnOut.log[2].f.cookies = <<CkAuth>>
  /\ fnOut.log[2].message # <<>>
  /\ ~fnOut.out.set
  /\ fnOut.writes = 1

\* The 64-bit big-endian number of the bytes a is above that of the bytes b.
RECURSIVE bytesAbove(_, _)
bytesAbove(a, b) ==
  /\ a # <<>>
  /\ \/ Head(a) > Head(b)
     \/ Head(a) = Head(b) /\ bytesAbove(Tail(a), Tail(b))

\* The frame announces a payload that is not empty.
declaresBytes(a) ==
  IF a.len7 < 126 THEN a.len7 # 0
                  ELSE \E k \in 1..Len(a.ext) : a.ext[k] # 0

\* C25: readFrame returns the error of a payload too large, without reading
\* the mask key or the payload, for every frame whose declared length is
\* above 10 MiB, and refuses no frame of a declared length of at most 10 MiB
\* in any of the three length classes: such a frame is returned with its
\* payload when its bytes follow, and fails only with the error of the read
\* when the connection ends before them.
C25_LengthLimit ==
  fnName = "readFrame.ret" =>
    IF fnArg.len7 = 127 /\ bytesAbove(fnArg.ext, BigEndian(MaxPayload, 8))
      THEN fnOut.err /\ fnOut.why = "tooLarge" /\ fnOut.payload = <<>>
      ELSE /\ fnOut.why # "tooLarge"
           /\ fnArg.follows =>
                /\ ~fnOut.err
                /\ Len(fnOut.payload) = ShortLength(fnArg.len7, fnArg.ext)
                /\ \A k \in 1..Len(fnOut.payload) : fnOut.payload[k] = 97
           /\ (~fnArg.follows /\ (fnArg.masked \/ declaresBytes(fnArg)))
                => (fnOut.err /\ fnOut.why = "eof")
           /\ (~fnArg.follows /\ ~fnOut.err) => fnOut.payload = <<>>

\* A 64-bit length of 10 MiB + 1 is refused.
C25_Witness ==
  /\ fnName = "readFrame.ret"
  /\ fnArg.ext = <<0, 0, 0, 0, 0, 160, 0, 1>>
  /\ fnOut.err
  /\ fnOut.why = "tooLarge"

\* C26: in a run for a URL of no built-in platform the cache path is blank
\* and no persistent cache is read, created or written: the cached-file
\* attempt is skipped, no temp jar is created, a browser source is given no
\* cookie file, and the CDP path leaves the cache alone.
C26_NoCacheForUnknownPlatform ==
  (mode = "get" /\ platform.ID = "") =>
    /\ ~cookieFile
    /\ cache = NoFile
    /\ jarFile = NoFile
    /\ ~tmpCookieFile
    /\ \A k \in 1..Len(attempts) : attempts[k].kind # "cache"

\* For a URL of no platform the chrome source failed without a cookie file
\* and the CDP path read cookies and returned: there is still no cache.
C26_Witness ==
  /\ mode = "get"
  /\ platform.ID = ""
  /\ pc = "cdpRet"
  /\ cookies # <<>>
  /\ attempts = <<Attempt("source", 1), Attempt("cdp", 1)>>
  /\ cache = NoFile

\* C27: the writes of the cache are not mutually excluded.  A process that
\* has a step of its write left can always take it, whatever the other
\* process is in the middle of; and the write that landed last decides what
\* the file holds: after a copy the jar copied, whatever another attempt put
\* there before, after os.Create an empty file, after a filtering the lines
\* the filter kept of what it had read.
C27_CacheWritesNotExcluded ==
  fnName = "cacheRace" =>
    /\ \A p \in Procs : fnOut.pos[p] # "done" => ENABLED RaceStep(p)
    /\ fnOut.log # <<>> =>
         LET e == fnOut.log[Len(fnOut.log)]
         IN  /\ e.op = "copy" => fnOut.file.lines = JarLines(e.by)
             /\ e.op = "create" => fnOut.file.lines = <<>>
             /\ e.op = "filter"
                  => fnOut.file.lines = keptLines(fnOut.snap[e.by])
             /\ (e.op = "write" /\ fnOut.fd[e.by] = fnOut.file.ino)
                  => fnOut.file.lines[fnOut.off[e.by]]
                       = JarLines(e.by)[fnOut.off[e.by]]

\* Both attempts wrote the cache: the first copied its jar over it, then
\* the refresh of the second emptied and rewrote the file, and the jar of
\* the first is gone.
C27_Witness ==
  /\ fnName = "cacheRace"
  /\ fnArg.ops = <<"copy", "refresh">>
  /\ fnOut.pos = <<"done", "done">>
  /\ fnOut.log[1] = [by |-> 1, op |-> "copy"]
  /\ fnOut.file.lines = JarLines(2)
  /\ fnOut.file.lines # JarLines(1)

\* runAuth returns in this step.
authReturns == mode = "auth" /\ pc # "done" /\ pc' = "done"

\* C28: runAuth writes the cache only in the step in which it returns
\* exitOK, with cookies that look authenticated, and the file then holds
\* those cookies of the platform's domains; every other return leaves the
\* cache as it was and gives exitAuthRequired or exitCookieProblem.
C28_AuthWritesCacheOnlyWhenLoggedIn ==
  [][mode = "auth" =>
       /\ cache' # cache =>
            /\ authReturns
            /\ result' = exitOK
            /\ looksLikeLoggedIn(cookies, platform)
            /\ cache' = FileOf("auth", 0, writtenCookies(cookies, platform))
       /\ authReturns =>
            /\ result' = exitOK => (pc = "authSave" /\ cache' # cache)
            /\ result' # exitOK =>
                 /\ cache' = cache
                 /\ result' \in {exitAuthRequired, exitCookieProblem}
       /\ (pc = "authCheck" /\ ~looksLikeLoggedIn(cookies, platform))
            => (authReturns /\ result' = exitAuthRequired)]_vars

\* The cookies read did not look authenticated: runAuth returned
\* exitAuthRequired and the cache of an earlier login is still there.
C28_Witness ==
  /\ mode = "auth"
  /\ pc = "done"
  /\ result = exitAuthRequired
  /\ checkRes = "false"
  /\ cookies = <<CkAuthEmpty, CkOther>>
  /\ cache = FileOf("prev", 0, <<CkAuth>>)

\* The attempts of a kind, in the order they were started.
attemptsOf(kind) == SelectSeq(attempts, LAMBDA a : a.kind = kind)

chromeSources == {k \in 1..Len(sources) : sources[k] = "chrome"}

\* C29: in a run of runWithAuthFallback the cached-file attempt is made at
\* most once and first; the sources are tried in list order, each at most
\* once; a CDP attempt is started only directly after the attempt of a
\* source named chrome that ended retryable, hence at most once for such a
\* source and never for another browser; so a run makes at most one attempt
\* for the cache, one for each source and one more for each chrome source,
\* which is at most |sources| + 2 for a list that names no browser twice.
C29_AttemptsBounded ==
  [][mode = "get" =>
       /\ attempts' # attempts =>
            \E a \in {Attempt("cache", 0)}
                       \cup {Attempt(k, n) : k \in {"source", "cdp"},
                                             n \in 1..Len(sources)} :
              /\ attempts' = Append(attempts, a)
              /\ a.kind = "cache" => attempts = <<>>
              /\ a.kind = "source" =>
                   a.idx = Len(attemptsOf("source")) + 1
              /\ a.kind = "cdp" =>
                   /\ attempts # <<>>
                   /\ attempts[Len(attempts)] = Attempt("source", a.idx)
                   /\ sources[a.idx] = "chrome"
                   /\ attemptCode # exitOK
                   /\ shouldTryNextAuth(attemptCode)
       /\ Len(attempts')
            <= Len(sources) + 1 + Cardinality(chromeSources)
       /\ (\A j, k \in 1..Len(sources) : sources[j] = sources[k] => j = k)
            => Len(attempts') <= Len(sources) + 2]_vars

\* The longest run for the list chrome, firefox: the cache, chrome, the CDP
\* attempt of chrome, and firefox.
C29_Witness ==
  /\ mode = "get"
  /\ sources = <<"chrome", "firefox">>
  /\ attempts = <<Attempt("cache", 0), Attempt("source", 1),
                  Attempt("cdp", 1), Attempt("source", 2)>>
  /\ pc = "done"

(***************************************************************************)
(* The text messages of a stream of server frames: the payload of a text   *)
(* frame with FIN = 1, or the payloads of a text frame with FIN = 0 and of *)
(* the continuation frames after it, up to the one with FIN = 1, joined.   *)
(* Control frames between the frames of a message are not part of it.      *)
(***************************************************************************)
RECURSIVE textMessagesFrom(_, _, _)
textMessagesFrom(fs, open, acc) ==
  IF fs = <<>>
    THEN <<>>
    ELSE
      LET d == Head(fs)
          joined == acc \o d.payload
      IN  IF ~open /\ d.opcode = OpText
            THEN IF d.fin
                   THEN <<d.payload>> \o textMessagesFrom(Tail(fs), FALSE, <<>>)
                   ELSE textMessagesFrom(Tail(fs), TRUE, d.payload)
            ELSE IF open /\ d.opcode = OpContinuation
                   THEN IF d.fin
                          THEN <<joined>>
                               \o textMessagesFrom(Tail(fs), FALSE, <<>>)
                          ELSE textMessagesFrom(Tail(fs), TRUE, joined)
                   ELSE textMessagesFrom(Tail(fs), open, acc)

textMessages(fs) == textMessagesFrom(fs, FALSE, <<>>)

\* ReadJSONRaw returned a payload.
payloadReturned == wsPhase = "readDone" /\ wsRet.kind = "payload"

\* C30: every payload ReadJSONRaw returns is the complete payload of one
\* text message the server sent, also when the message came as a text frame
\* with FIN = 0 followed by continuation frames: the first call on a stream
\* returns the first text message of the stream, whole.
C30_WholeMessageDelivered ==
  payloadReturned =>
    /\ textMessages(wsArg.frames) # <<>>
    /\ wsRet.payload = Head(textMessages(wsArg.frames))

====
